---- MODULE Spec2Model ----
(***************************************************************************)
(* Model of the Coursebox migration parser (src/server.js): the page       *)
(* fetcher, the page pair comparator and the batch orchestrator with its   *)
(* job registry, stop endpoint and report generation, the cache warmup,    *)
(* the sitemap import and compareSitemaps (src/lib/sitemap-compare.js).    *)
(*                                                                         *)
(* JavaScript strings are modelled as sequences of tokens (a token is a    *)
(* piece of text that the code never looks inside): '' is <<>>, string     *)
(* concatenation is \o, String.includes is contiguous subsequence search   *)
(* and === on strings is equality of the token sequences.  null is the     *)
(* empty option <<>> and a present value v is <<v>>.                       *)
(***************************************************************************)
EXTENDS Integers, Sequences, FiniteSets, TLC

VARIABLES
    \* --- one page pair going through fetchPageData x 2 and comparePages
    checks,         \* the CheckSet of the request body
    prodResp,       \* what the prod host answers for the path
    devResp,        \* what the dev host answers for the path
    comparison,     \* the record comparePages returned (<<>> before the call)
    \* --- the server
    sockets,            \* io.sockets.sockets: socket id -> "new" | "connected" | "closed"
    activeParsingJobs,  \* the Map socket id -> job ({stopped}), NoJob when absent
    runs,               \* the runParser calls, each with its locals and position
    files,              \* result/: file -> the run that wrote it last (NoRun: none)
    BATCH_SIZE,         \* config.batchSize of the runs
    activeWarmupJobs,   \* the Map socket id -> warmup job ({stopped})
    warmupRuns,         \* the runWarmup calls, each with its position
    warmupAnswers,      \* the answers of POST /api/warmup, in order
    \* --- the HTML report of a result list
    reportResults,      \* the results handed to generateHtmlReport
    pagesMapping,       \* pages-mapping.json: path -> path of the EN version
    groupedResults,     \* the Map groupByPageType returned (<<>> before the call)
    sortedGroups,       \* per group, the rows generateGroupedRows rendered
    \* --- the sitemap import
    sitemap,            \* the <url> nodes of the downloaded sitemap.xml
    imported,           \* what an import wrote and answered (<<>> before)
    \* --- the comparison of two sitemaps
    sitemapComparison   \* the two grouped sitemaps and what compareSitemaps returned

cmpVars == <<checks, prodResp, devResp, comparison>>

serverVars == <<sockets, activeParsingJobs, runs, files, BATCH_SIZE,
                activeWarmupJobs, warmupRuns, warmupAnswers>>

toolVars == <<reportResults, pagesMapping, groupedResults, sortedGroups, sitemap, imported,
              sitemapComparison>>

vars == <<checks, prodResp, devResp, comparison,
          sockets, activeParsingJobs, runs, files, BATCH_SIZE,
          activeWarmupJobs, warmupRuns, warmupAnswers,
          reportResults, pagesMapping, groupedResults, sortedGroups,
          sitemap, imported, sitemapComparison>>

(***************************************************************************)
(* Strings                                                                 *)
(***************************************************************************)
null == <<>>

Some(v) == <<v>>

\* String.prototype.includes
includes(s, sub) ==
    \E i \in 0..(Len(s) - Len(sub)) : SubSeq(s, i + 1, i + Len(sub)) = sub

\* String.prototype.trim: drops leading and trailing whitespace tokens
RECURSIVE trimStart(_)
trimStart(s) == IF s # <<>> /\ Head(s) = " " THEN trimStart(Tail(s)) ELSE s

RECURSIVE trimEnd(_)
trimEnd(s) ==
    IF s # <<>> /\ s[Len(s)] = " " THEN trimEnd(SubSeq(s, 1, Len(s) - 1)) ELSE s

trim(s) == trimEnd(trimStart(s))

\* Array.prototype.join
RECURSIVE join(_, _)
join(list, sep) ==
    IF list = <<>> THEN <<>>
    ELSE IF Len(list) = 1 THEN list[1]
    ELSE list[1] \o sep \o join(Tail(list), sep)

\* a number inside a template literal
Num(n) == <<ToString(n)>>

(***************************************************************************)
(* fetchPageData                                                           *)
(*                                                                         *)
(* A host's answer to one GET: ok says whether axios resolved (a 2xx       *)
(* terminal status) or rejected; status is the terminal response's status, *)
(* 0 when the request got no response; page is the body; hops are the      *)
(* redirects followed, each with the status of the redirecting response    *)
(* and the pathname of the URL it sent the request to.                     *)
(***************************************************************************)
\* mutant: only a 200 body is parsed, and a terminal status that is not 200
\* leaves no error message
fetchPageData_StatusWithoutError(path, resp, chk) ==
    LET redirected == resp.hops # <<>>
        originalStatus == IF redirected THEN Some(resp.hops[1].statusCode) ELSE null
        redirectUrl == IF redirected THEN Some(resp.hops[1].pathname) ELSE null
        page == resp.page
    IN IF resp.ok /\ resp.status = 200
       THEN [ url |-> path,
              title |-> IF chk.title THEN trim(page.title) ELSE <<>>,
              description |-> IF chk.description THEN trim(page.description) ELSE <<>>,
              h1 |-> IF chk.h1
                     THEN join([i \in 1..Len(page.h1) |-> trim(page.h1[i])], <<" | ">>)
                     ELSE <<>>,
              ogImage |-> IF chk.ogImage THEN page.ogImage ELSE <<>>,
              status |-> resp.status,
              error |-> null,
              redirected |-> redirected,
              redirectStatus |-> originalStatus,
              redirectUrl |-> redirectUrl ]
       ELSE [ url |-> path,
              title |-> <<>>,
              description |-> <<>>,
              h1 |-> <<>>,
              ogImage |-> <<>>,
              status |-> resp.status,
              error |-> IF resp.status = 0 THEN Some(resp.message) ELSE null,
              redirected |-> redirected,
              redirectStatus |-> originalStatus,
              redirectUrl |-> redirectUrl ]

fetchPageData(path, resp, chk) ==
    LET redirected == resp.hops # <<>>
        originalStatus == IF redirected THEN Some(resp.hops[1].statusCode) ELSE null
        redirectUrl == IF redirected THEN Some(resp.hops[1].pathname) ELSE null
        page == resp.page
    IN IF resp.ok
       THEN [ url |-> path,
              title |-> IF chk.title THEN trim(page.title) ELSE <<>>,
              description |-> IF chk.description THEN trim(page.description) ELSE <<>>,
              h1 |-> IF chk.h1
                     THEN join([i \in 1..Len(page.h1) |-> trim(page.h1[i])], <<" | ">>)
                     ELSE <<>>,
              ogImage |-> IF chk.ogImage THEN page.ogImage ELSE <<>>,
              status |-> resp.status,
              error |-> null,
              redirected |-> redirected,
              redirectStatus |-> originalStatus,
              redirectUrl |-> redirectUrl ]
       ELSE [ url |-> path,
              title |-> <<>>,
              description |-> <<>>,
              h1 |-> <<>>,
              ogImage |-> <<>>,
              status |-> resp.status,
              error |-> Some(resp.message),
              redirected |-> redirected,
              redirectStatus |-> originalStatus,
              redirectUrl |-> redirectUrl ]

(***************************************************************************)
(* comparePages                                                            *)
(***************************************************************************)
\* the three marks of the match columns (emoji in the source)
CheckMark == "check-mark"
CrossMark == "cross-mark"
WarningMark == "warning-mark"

WebflowMarkers ==
    { <<"cdn.prod.website-files.com">>, <<"uploads.webflow.com">>,
      <<"assets.website-files.com">>, <<"webflow-prod-assets">> }

SanityMarker == <<"cdn.sanity.io">>

\* mutant: the last legacy CDN name is forgotten
isExpectedOgImageMigration_ThreeHosts(prodUrl, devUrl) ==
    IF prodUrl = <<>> \/ devUrl = <<>> THEN FALSE
    ELSE LET prodIsWebflow ==
                 \E m \in WebflowMarkers \ {<<"webflow-prod-assets">>} : includes(prodUrl, m)
             devIsSanity == includes(devUrl, SanityMarker)
         IN prodIsWebflow /\ devIsSanity

isExpectedOgImageMigration(prodUrl, devUrl) ==
    IF prodUrl = <<>> \/ devUrl = <<>> THEN FALSE
    ELSE LET prodIsWebflow == \E m \in WebflowMarkers : includes(prodUrl, m)
             devIsSanity == includes(devUrl, SanityMarker)
         IN prodIsWebflow /\ devIsSanity

\* `${status} -> ${url}` with the option values unwrapped
RedirectText(data) == Num(data.redirectStatus[1]) \o <<" -> ">> \o data.redirectUrl[1]

\* mutant: the bare status even for a redirected side
statusNote_BareStatus(label, data) ==
    IF data.status # 200 THEN << <<label>> \o Num(data.status) >> ELSE <<>>

\* the note pushed for one side in the ERROR branch
statusNote(label, data) ==
    IF data.status # 200
    THEN IF data.redirected
         THEN << <<label>> \o Num(data.redirectStatus[1])
                 \o <<" redirect -> ">> \o data.redirectUrl[1] >>
         ELSE << <<label>> \o Num(data.status) >>
    ELSE <<>>

\* the informational note pushed for a redirected side when both are 200
redirectNote(label, data) ==
    IF data.redirected THEN << <<label>> \o RedirectText(data) >> ELSE <<>>

\* mutant: no informational note for a redirect when both sides are 200
comparePagesNotes_NoRedirectNote(prodData, devData, chk) ==
    LET bothOk == prodData.status = 200 /\ devData.status = 200
        titleMatch == ~chk.title \/ prodData.title = devData.title
        descMatch == ~chk.description \/ prodData.description = devData.description
        h1Match == ~chk.h1 \/ prodData.h1 = devData.h1
        ogImageMatch == ~chk.ogImage \/ prodData.ogImage = devData.ogImage
        ogImageMigration == chk.ogImage /\ ~ogImageMatch
            /\ isExpectedOgImageMigration(prodData.ogImage, devData.ogImage)
    IN IF ~bothOk
       THEN statusNote("Prod: ", prodData) \o statusNote("Dev: ", devData)
       ELSE (IF chk.title /\ ~titleMatch THEN << <<"Title">> >> ELSE <<>>)
            \o (IF chk.description /\ ~descMatch THEN << <<"Description">> >> ELSE <<>>)
            \o (IF chk.h1 /\ ~h1Match THEN << <<"H1">> >> ELSE <<>>)
            \o (IF chk.ogImage /\ ~ogImageMatch
                THEN IF ogImageMigration
                     THEN << <<"OG Image (CDN migration: Webflow->Sanity)">> >>
                     ELSE << <<"OG Image">> >>
                ELSE <<>>)

\* the notes array built by comparePages, before it is joined
comparePagesNotes(prodData, devData, chk) ==
    LET bothOk == prodData.status = 200 /\ devData.status = 200
        titleMatch == ~chk.title \/ prodData.title = devData.title
        descMatch == ~chk.description \/ prodData.description = devData.description
        h1Match == ~chk.h1 \/ prodData.h1 = devData.h1
        ogImageMatch == ~chk.ogImage \/ prodData.ogImage = devData.ogImage
        ogImageMigration == chk.ogImage /\ ~ogImageMatch
            /\ isExpectedOgImageMigration(prodData.ogImage, devData.ogImage)
    IN IF ~bothOk
       THEN statusNote("Prod: ", prodData) \o statusNote("Dev: ", devData)
       ELSE redirectNote("Prod redirected: ", prodData)
            \o redirectNote("Dev redirected: ", devData)
            \o (IF chk.title /\ ~titleMatch THEN << <<"Title">> >> ELSE <<>>)
            \o (IF chk.description /\ ~descMatch THEN << <<"Description">> >> ELSE <<>>)
            \o (IF chk.h1 /\ ~h1Match THEN << <<"H1">> >> ELSE <<>>)
            \o (IF chk.ogImage /\ ~ogImageMatch
                THEN IF ogImageMigration
                     THEN << <<"OG Image (CDN migration: Webflow->Sanity)">> >>
                     ELSE << <<"OG Image">> >>
                ELSE <<>>)

\* mutant: the h1 mismatch is not counted
comparePagesDiffCount_NoH1(prodData, devData, chk) ==
    LET bothOk == prodData.status = 200 /\ devData.status = 200
        titleMatch == ~chk.title \/ prodData.title = devData.title
        descMatch == ~chk.description \/ prodData.description = devData.description
        ogImageMatch == ~chk.ogImage \/ prodData.ogImage = devData.ogImage
        ogImageMigration == chk.ogImage /\ ~ogImageMatch
            /\ isExpectedOgImageMigration(prodData.ogImage, devData.ogImage)
    IN IF ~bothOk THEN 0
       ELSE (IF chk.title /\ ~titleMatch THEN 1 ELSE 0)
            + (IF chk.description /\ ~descMatch THEN 1 ELSE 0)
            + (IF chk.ogImage /\ ~ogImageMatch /\ ~ogImageMigration THEN 1 ELSE 0)

\* mutant: a redirected side counts as a difference
comparePagesDiffCount_RedirectCounted(prodData, devData, chk) ==
    LET bothOk == prodData.status = 200 /\ devData.status = 200
        titleMatch == ~chk.title \/ prodData.title = devData.title
        descMatch == ~chk.description \/ prodData.description = devData.description
        h1Match == ~chk.h1 \/ prodData.h1 = devData.h1
        ogImageMatch == ~chk.ogImage \/ prodData.ogImage = devData.ogImage
        ogImageMigration == chk.ogImage /\ ~ogImageMatch
            /\ isExpectedOgImageMigration(prodData.ogImage, devData.ogImage)
    IN IF ~bothOk THEN 0
       ELSE (IF prodData.redirected THEN 1 ELSE 0)
            + (IF devData.redirected THEN 1 ELSE 0)
            + (IF chk.title /\ ~titleMatch THEN 1 ELSE 0)
            + (IF chk.description /\ ~descMatch THEN 1 ELSE 0)
            + (IF chk.h1 /\ ~h1Match THEN 1 ELSE 0)
            + (IF chk.ogImage /\ ~ogImageMatch /\ ~ogImageMigration THEN 1 ELSE 0)

\* the diffCount counter of comparePages
comparePagesDiffCount(prodData, devData, chk) ==
    LET bothOk == prodData.status = 200 /\ devData.status = 200
        titleMatch == ~chk.title \/ prodData.title = devData.title
        descMatch == ~chk.description \/ prodData.description = devData.description
        h1Match == ~chk.h1 \/ prodData.h1 = devData.h1
        ogImageMatch == ~chk.ogImage \/ prodData.ogImage = devData.ogImage
        ogImageMigration == chk.ogImage /\ ~ogImageMatch
            /\ isExpectedOgImageMigration(prodData.ogImage, devData.ogImage)
    IN IF ~bothOk THEN 0
       ELSE (IF chk.title /\ ~titleMatch THEN 1 ELSE 0)
            + (IF chk.description /\ ~descMatch THEN 1 ELSE 0)
            + (IF chk.h1 /\ ~h1Match THEN 1 ELSE 0)
            + (IF chk.ogImage /\ ~ogImageMatch /\ ~ogImageMigration THEN 1 ELSE 0)

\* mutant: only the prod status decides bothOk
comparePagesStatus_ProdOnly(prodData, devData, chk) ==
    LET bothOk == prodData.status = 200
    IN IF ~bothOk THEN "ERROR"
       ELSE IF comparePagesDiffCount(prodData, devData, chk) > 0 THEN "DIFF"
       ELSE "OK"

\* the status variable of comparePages
comparePagesStatus(prodData, devData, chk) ==
    LET bothOk == prodData.status = 200 /\ devData.status = 200
    IN IF ~bothOk THEN "ERROR"
       ELSE IF comparePagesDiffCount(prodData, devData, chk) > 0 THEN "DIFF"
       ELSE "OK"

comparePages(prodData, devData, chk) ==
    LET titleMatch == ~chk.title \/ prodData.title = devData.title
        descMatch == ~chk.description \/ prodData.description = devData.description
        h1Match == ~chk.h1 \/ prodData.h1 = devData.h1
        ogImageMatch == ~chk.ogImage \/ prodData.ogImage = devData.ogImage
        ogImageMigration == chk.ogImage /\ ~ogImageMatch
            /\ isExpectedOgImageMigration(prodData.ogImage, devData.ogImage)
        notes == comparePagesNotes(prodData, devData, chk)
    IN [ url |-> prodData.url,
         status |-> comparePagesStatus(prodData, devData, chk),
         diffCount |-> comparePagesDiffCount(prodData, devData, chk),
         notes |-> IF Len(notes) > 0 THEN join(notes, <<", ">>) ELSE <<"All good">>,
         prodTitle |-> prodData.title,
         devTitle |-> devData.title,
         titleMatch |-> IF titleMatch THEN CheckMark ELSE CrossMark,
         prodDescription |-> prodData.description,
         devDescription |-> devData.description,
         descMatch |-> IF descMatch THEN CheckMark ELSE CrossMark,
         prodH1 |-> prodData.h1,
         devH1 |-> devData.h1,
         h1Match |-> IF h1Match THEN CheckMark ELSE CrossMark,
         prodOgImage |-> prodData.ogImage,
         devOgImage |-> devData.ogImage,
         ogImageMatch |-> IF ogImageMatch THEN CheckMark
                          ELSE IF ogImageMigration THEN WarningMark ELSE CrossMark,
         ogImageMigration |-> ogImageMigration,
         prodStatus |-> prodData.status,
         devStatus |-> devData.status,
         prodError |-> IF prodData.error # null THEN prodData.error[1] ELSE <<>>,
         devError |-> IF devData.error # null THEN devData.error[1] ELSE <<>>,
         prodRedirected |-> prodData.redirected,
         prodRedirectStatus |-> prodData.redirectStatus,
         prodRedirectUrl |-> prodData.redirectUrl,
         devRedirected |-> devData.redirected,
         devRedirectStatus |-> devData.redirectStatus,
         devRedirectUrl |-> devData.redirectUrl ]

(***************************************************************************)
(* Inputs of the page pair pipeline: the CheckSets, the pages the two      *)
(* hosts may serve and the answers they may give.                          *)
(***************************************************************************)
CheckSets == [title : BOOLEAN, description : BOOLEAN, h1 : BOOLEAN, ogImage : BOOLEAN]

AllChecks == [title |-> TRUE, description |-> TRUE, h1 |-> TRUE, ogImage |-> TRUE]

\* og:image URLs on the legacy (Webflow) CDN hosts
OgWebflowCdn == <<"https://", "cdn.prod.website-files.com", "/x/img.png">>
OgWebflowUploads == <<"https://", "uploads.webflow.com", "/x/img.png">>
OgWebflowAssets == <<"https://", "assets.website-files.com", "/x/img.png">>
OgWebflowS3 == <<"https://", "webflow-prod-assets", ".s3.amazonaws.com", "/x/img.png">>
\* on the new (Sanity) CDN host
OgSanity == <<"https://", "cdn.sanity.io", "/images/y/img.png">>
\* on a host that is neither, without and with a CDN name inside the path
OgOther == <<"https://", "www.coursebox.ai", "/img.png">>
OgProxySanity ==
    <<"https://", "img.example.com", "/proxy/", "cdn.sanity.io", "/images/y/img.png">>
OgProxyWebflow ==
    <<"https://", "img.example.com", "/proxy/", "assets.website-files.com", "/x/img.png">>

BasePage ==
    [ title |-> <<" ", "Pricing", " ">>,
      description |-> <<"Plans", " ", "and", " ", "pricing">>,
      h1 |-> << <<"Pricing">> >>,
      ogImage |-> OgWebflowAssets ]

\* a page without title, meta description, h1 and og:image
EmptyPage == [ title |-> <<>>, description |-> <<>>, h1 |-> <<>>, ogImage |-> <<>> ]

ProdOgImages ==
    { OgWebflowCdn, OgWebflowUploads, OgWebflowAssets, OgWebflowS3,
      OgOther, OgProxyWebflow }

DevOgImages == { OgSanity, OgOther, OgProxySanity, OgWebflowAssets }

ProdPages == { [BasePage EXCEPT !.ogImage = og] : og \in ProdOgImages } \cup {EmptyPage}

DevTexts ==
    { [title |-> BasePage.title, description |-> BasePage.description, h1 |-> BasePage.h1],
      [title |-> <<"Pricing", " ", "Plans">>, description |-> BasePage.description,
       h1 |-> BasePage.h1],
      [title |-> <<"Pricing">>, description |-> <<"Plans">>, h1 |-> BasePage.h1],
      [title |-> <<"Pricing">>, description |-> BasePage.description,
       h1 |-> << <<" ", "Pricing">>, <<"Plans">> >>],
      [title |-> <<"Plans">>, description |-> <<"Plans">>, h1 |-> <<>>] }

DevPages ==
    { [title |-> t.title, description |-> t.description, h1 |-> t.h1, ogImage |-> og] :
        t \in DevTexts, og \in DevOgImages } \cup {EmptyPage}

\* the redirect chains a request may follow before its terminal response
NoHops == <<>>
OneHop == << [statusCode |-> 301, pathname |-> <<"/new">>] >>
TwoHops == << [statusCode |-> 301, pathname |-> <<"/mid">>],
              [statusCode |-> 302, pathname |-> <<"/new">>] >>
HopChains == { NoHops, OneHop, TwoHops }

\* axios resolved: terminal status 2xx, with a body
Resolved(status, page, hops) ==
    [ ok |-> TRUE, status |-> status, page |-> page, hops |-> hops, message |-> <<>> ]

\* axios rejected: a non-2xx terminal status, or no response at all (status 0)
Rejected(status, hops) ==
    [ ok |-> FALSE, status |-> status, page |-> EmptyPage, hops |-> hops,
      message |-> IF status = 0 THEN <<"timeout of 10000ms exceeded">>
                  ELSE <<"Request failed with status code ">> \o Num(status) ]

Responses(pages) ==
    { Resolved(st, pg, h) : st \in {200, 204}, pg \in pages, h \in HopChains }
    \cup { Rejected(st, h) : st \in {404, 0}, h \in HopChains }

NoComparison == <<>>

PagePath == <<"/pricing">>

(***************************************************************************)
(* The server: sockets, the job registry activeParsingJobs, runParser      *)
(* (the batched variant), /api/parse, /api/stop and the disconnect handler *)
(*                                                                         *)
(* An action is one turn of the Node event loop: a request handler or the  *)
(* continuation of an await, run to its next await.  A run's position is   *)
(* the await it is suspended at: "fetching" (Promise.all of the batch),    *)
(* "delay" (the inter-batch delay), "csvMain", "csvEnglish", "csvOther"    *)
(* (the three writeRecords of generateCsvReport), and "done".              *)
(***************************************************************************)
SocketOrder == <<"s1", "s2">>

SocketIds == {SocketOrder[i] : i \in 1..Len(SocketOrder)}

\* socket ids are handed out in this order and never again
SocketIndex(s) == CHOOSE i \in 1..Len(SocketOrder) : SocketOrder[i] = s

RunOrder == <<"r1", "r2">>

RunIds == {RunOrder[i] : i \in 1..Len(RunOrder)}

\* the run of a server that gets a single /api/parse request
OneRun == {RunOrder[1]}

NoRun == "none"

\* the paths of all runs together are at most this many
MaxUrls == 3

\* config.batchSize, scaled down from the 5 that /api/parse passes so that a
\* run over MaxUrls paths has more than one batch
BatchSizes == {1, 2}

CsvMain == "comparison-report.csv"
CsvEnglish == "comparison-report-english.csv"
CsvOther == "comparison-report-other-languages.csv"
HtmlReport == "comparison-report.html"
SummaryJson == "summary.json"

FileNames == {CsvMain, CsvEnglish, CsvOther, HtmlReport, SummaryJson}

\* what the two hosts may answer for a path during a run: <<prod, dev>>
RunAnswers ==
    { <<Resolved(200, BasePage, NoHops),
        Resolved(200, [BasePage EXCEPT !.ogImage = OgSanity], NoHops)>>,
      <<Resolved(200, BasePage, NoHops),
        Resolved(200, [BasePage EXCEPT !.title = <<"Pricing", " ", "Plans">>], NoHops)>>,
      <<Rejected(0, NoHops), Resolved(200, BasePage, NoHops)>>,
      <<Resolved(200, BasePage, NoHops), Rejected(404, OneHop)>> }

\* urls-main.txt as read by /api/parse for run r: n paths
urlsOf(r, n) == [i \in 1..n |-> <<"/", r, "/page", ToString(i)>>]

\* a task of batchPromises that has not returned yet
PendingTask == null

IdleRun ==
    [ pc |-> "idle", socketId |-> "none", urls |-> <<>>, batchStart |-> 0,
      tasks |-> <<>>, results |-> <<>>, events |-> <<>>,
      requests |-> <<>>,      \* the GETs issued so far, in the order of axios.get
      returned |-> null,      \* the value runParser's promise resolved with
      thrown |-> null,        \* the message of the error it rejected with
      \* history: where the run was when /api/stop first accepted a request
      \* for its session, and whether a task finished before an earlier one
      stopAt |-> null, overtaken |-> FALSE,
      \* history: how often await delay(DELAY_BETWEEN_BATCHES) was entered
      delays |-> 0 ]

InProgress(run) == run.pc \notin {"idle", "done"}

\* socket.emit('progress', ev)
emit(run, ev) == [run EXCEPT !.events = Append(@, ev)]

\* mutant: the batch takes all the remaining paths
batchEnd_Unbounded(run, b) == Len(run.urls)

\* Math.min(batchStart + BATCH_SIZE, urls.length)
batchEnd(run, b) ==
    IF b + BATCH_SIZE < Len(run.urls) THEN b + BATCH_SIZE ELSE Len(run.urls)

\* batchUrls.map(...): every task calls fetchPageData for prod and for dev, and
\* each call issues its axios.get before the first await
batchRequests(run, b, end) ==
    [k \in 1..(2 * (end - b)) |->
        [ host |-> IF k % 2 = 1 THEN "prod" ELSE "dev",
          path |-> run.urls[b + ((k + 1) \div 2)] ]]

\* the 'fetching' event and the dispatch of the batch's fetches
startBatch(run, b) ==
    LET end == batchEnd(run, b)
    IN [ emit(run, [type |-> "fetching", current |-> b + 1, total |-> Len(run.urls),
                    batchSize |-> end - b])
         EXCEPT !.pc = "fetching", !.batchStart = b,
                !.tasks = [i \in 1..(end - b) |-> PendingTask],
                !.requests = @ \o batchRequests(run, b, end) ]

\* after the loop: the 'generating' event and generateCsvReport up to its
\* first await
startReports(st) ==
    [st EXCEPT !.run = [emit(st.run, [type |-> "generating"]) EXCEPT !.pc = "csvMain"]]

\* mutant: the stop check emits 'stopped' and falls through to the batch
loopBody_NoReturn(st, b) ==
    LET run == st.run
        job == st.jobs[run.socketId]
    IN IF job # null /\ job[1].stopped
       THEN [ run |-> startBatch(emit(run, [type |-> "stopped"]), b),
              jobs |-> [st.jobs EXCEPT ![run.socketId] = null] ]
       ELSE [st EXCEPT !.run = startBatch(run, b)]

\* one iteration of the for loop up to its await: the stop check, then the batch
loopBody(st, b) ==
    LET run == st.run
        job == st.jobs[run.socketId]
    IN IF job # null /\ job[1].stopped
       THEN [ run |-> [ emit(run, [type |-> "stopped"])
                        EXCEPT !.pc = "done", !.batchStart = b,
                               !.returned = Some([stopped |-> TRUE,
                                                  results |-> run.results]) ],
              jobs |-> [st.jobs EXCEPT ![run.socketId] = null] ]
       ELSE [st EXCEPT !.run = startBatch(run, b)]

\* the for loop entered at batchStart = b
forLoop(st, b) == IF b < Len(st.run.urls) THEN loopBody(st, b) ELSE startReports(st)

\* mutant: the results come in reverse order of the batch
batchResults_Reversed(tasks) ==
    [i \in 1..Len(tasks) |-> tasks[Len(tasks) + 1 - i][1]]

\* await Promise.all(batchPromises): the task results in the order of the tasks
batchResults(tasks) == [i \in 1..Len(tasks) |-> tasks[i][1]]

\* mutant: the index of the notification counts from 0
comparedEvents_ZeroBased(run, res) ==
    [i \in 1..Len(res) |->
        [ type |-> "compared", current |-> run.batchStart + i - 1, total |-> Len(run.urls),
          url |-> run.urls[run.batchStart + i], status |-> res[i].status ]]

\* the 'compared' events of a batch
comparedEvents(run, res) ==
    [i \in 1..Len(res) |->
        [ type |-> "compared", current |-> run.batchStart + i, total |-> Len(run.urls),
          url |-> run.urls[run.batchStart + i], status |-> res[i].status ]]

\* mutant: the delay is awaited after the last batch as well
afterBatch_AlwaysDelay(st) ==
    LET run == st.run
        res == batchResults(run.tasks)
    IN [st EXCEPT !.run = [run EXCEPT !.results = @ \o res,
                                      !.events = @ \o comparedEvents(run, res),
                                      !.tasks = <<>>,
                                      !.pc = "delay", !.delays = @ + 1]]

\* the continuation of await Promise.all(batchPromises), up to the next await
afterBatch(st) ==
    LET run == st.run
        res == batchResults(run.tasks)
        run1 == [run EXCEPT !.results = @ \o res,
                            !.events = @ \o comparedEvents(run, res),
                            !.tasks = <<>>]
    IN IF batchEnd(run, run.batchStart) < Len(run.urls)
       THEN [st EXCEPT !.run = [run1 EXCEPT !.pc = "delay", !.delays = @ + 1]]
       ELSE startReports([st EXCEPT !.run = run1])

\* the body of a task of batchPromises
batchTask(path, answers, chk) ==
    comparePages(fetchPageData(path, answers[1], chk),
                 fetchPageData(path, answers[2], chk), chk)

CountStatus(results, status) ==
    Cardinality({i \in 1..Len(results) : results[i].status = status})

\* mutant: DIFF records are counted as ok
summaryOf_DiffAsOk(results) ==
    [ total |-> Len(results),
      ok |-> CountStatus(results, "OK") + CountStatus(results, "DIFF"),
      diff |-> CountStatus(results, "DIFF"),
      error |-> CountStatus(results, "ERROR") ]

\* the summary object
summaryOf(results) ==
    [ total |-> Len(results),
      ok |-> CountStatus(results, "OK"),
      diff |-> CountStatus(results, "DIFF"),
      error |-> CountStatus(results, "ERROR") ]

\* the end of the try block: the 'complete' event, the job removed, the return
complete(st) ==
    LET run == st.run
        summary == summaryOf(run.results)
    IN [ run |-> [ emit(run, [type |-> "complete", summary |-> summary])
                   EXCEPT !.pc = "done",
                          !.returned = Some([results |-> run.results,
                                             summary |-> summary]) ],
         jobs |-> [st.jobs EXCEPT ![run.socketId] = null] ]

\* an exception inside the try block: the catch block removes the job and
\* rethrows, the .catch of /api/parse emits 'error'
abort(st, message) ==
    [ run |-> [ emit(st.run, [type |-> "error", message |-> message])
                EXCEPT !.pc = "done", !.thrown = Some(message) ],
      jobs |-> [st.jobs EXCEPT ![st.run.socketId] = null] ]

\* task i of the batch returns result
taskDone(st, i, result) ==
    LET run == st.run
        overtakes == \E j \in 1..(i - 1) : run.tasks[j] = PendingTask
        run1 == [run EXCEPT !.tasks[i] = Some(result), !.overtaken = @ \/ overtakes]
        st1 == [st EXCEPT !.run = run1]
    IN IF \A j \in 1..Len(run1.tasks) : run1.tasks[j] # PendingTask
       THEN afterBatch(st1) ELSE st1

\* mutant: a rejected axios.get is rethrown by fetchPageData
settle_Rethrow(st, i, answers, chk) ==
    IF ~answers[1].ok THEN abort(st, answers[1].message)
    ELSE IF ~answers[2].ok THEN abort(st, answers[2].message)
    ELSE taskDone(st, i, batchTask(st.run.urls[st.run.batchStart + i], answers, chk))

\* the two fetches of task i are settled with answers: fetchPageData returns a
\* record for either outcome, the task returns the comparison
settle(st, i, answers, chk) ==
    taskDone(st, i, batchTask(st.run.urls[st.run.batchStart + i], answers, chk))

WriteError(file) == <<"EACCES: permission denied, open ", file>>

RECURSIVE TotalUrls(_)
TotalUrls(S) ==
    IF S = {} THEN 0
    ELSE LET r == CHOOSE x \in S : TRUE IN Len(runs[r].urls) + TotalUrls(S \ {r})

RunIndex(r) == CHOOSE i \in 1..Len(RunOrder) : RunOrder[i] = r

(***************************************************************************)
(* generateHtmlReport: groupByPageType and generateGroupedRows.  A path is *)
(* the sequence of its '/' and its segments: '/fr/pricing' is              *)
(* <<"/", "fr", "/", "pricing">>.  A result is modelled by its url; the    *)
(* other fields are copied untouched.                                      *)
(***************************************************************************)
startsWith(s, prefix) ==
    Len(prefix) <= Len(s) /\ SubSeq(s, 1, Len(prefix)) = prefix

endsWith(s, suffix) ==
    Len(suffix) <= Len(s) /\ SubSeq(s, Len(s) - Len(suffix) + 1, Len(s)) = suffix

LOCALES == <<"ar", "fr", "de", "es", "it", "pt", "zh", "ko", "ja", "nl">>

\* url === `/${loc}` || url.startsWith(`/${loc}/`)
hasLocale(url, loc) == url = <<"/", loc>> \/ startsWith(url, <<"/", loc, "/">>)

\* the first locale of LOCALES that prefixes url, 'en' when none does
localeOf(url) ==
    LET hits == {k \in 1..Len(LOCALES) : hasLocale(url, LOCALES[k])}
    IN IF hits = {} THEN "en"
       ELSE LOCALES[CHOOSE k \in hits : \A j \in hits : k <= j]

\* '/{loc}' gives '/', '/{loc}/x' gives '/' + url.substring(loc.length + 2)
withoutLocale(url, loc) ==
    IF url = <<"/", loc>> THEN <<"/">> ELSE <<"/">> \o SubSeq(url, 4, Len(url))

\* first pass: the urls of the results that are not localized
enPages(results) ==
    {results[i].url : i \in {k \in 1..Len(results) : localeOf(results[k].url) = "en"}}

\* mutant: the group key without the check for an EN version
basePathOf_NoEnCheck(url, mapping, en) ==
    LET locale == localeOf(url)
        stripped == IF locale = "en" THEN url ELSE withoutLocale(url, locale)
    IN IF url \in DOMAIN mapping THEN mapping[url] ELSE stripped

\* the group key of url: the mapping entry if there is one, else the path
\* without its locale; a localized url whose key so chosen is not the url of
\* an EN result keeps its own url
basePathOf(url, mapping, en) ==
    LET locale == localeOf(url)
        stripped == IF locale = "en" THEN url ELSE withoutLocale(url, locale)
        mapped == IF url \in DOMAIN mapping THEN mapping[url] ELSE stripped
    IN IF mapped \notin en /\ locale # "en" THEN url ELSE mapped

\* groups.get(basePath).push(rec), after groups.set(basePath, []) for a new
\* key; the Map keeps its entries in insertion order
pushResult(groups, basePath, rec) ==
    IF \E k \in 1..Len(groups) : groups[k].basePath = basePath
    THEN [k \in 1..Len(groups) |->
             IF groups[k].basePath = basePath
             THEN [groups[k] EXCEPT !.pageResults = Append(@, rec)]
             ELSE groups[k]]
    ELSE Append(groups, [basePath |-> basePath, pageResults |-> <<rec>>])

RECURSIVE groupLoop(_, _, _, _)
\* second pass over the results from index i on
groupLoop(results, mapping, i, groups) ==
    IF i > Len(results) THEN groups
    ELSE LET url == results[i].url
             rec == [url |-> url, locale |-> localeOf(url)]
         IN groupLoop(results, mapping, i + 1,
                      pushResult(groups, basePathOf(url, mapping, enPages(results)), rec))

\* new Map([...groups.entries()].sort()): the entries are compared as strings
\* (key, then ',[object Object]...'); PathOrder lists the paths of the model
\* in that order
sortEntries(groups) ==
    LET PathOrder ==
            << <<"/">>, <<"/", "de", "/", "pricing">>, <<"/", "fr">>,
               <<"/", "fr", "/", "pricing">>, <<"/", "fr", "/", "tarifs">>,
               <<"/", "plans">>, <<"/", "pricing">>, <<"/", "tarifs">> >>
        PathRank(p) == CHOOSE k \in 1..Len(PathOrder) : PathOrder[k] = p
        entries == {groups[k] : k \in 1..Len(groups)}
        before(e) == {f \in entries : PathRank(f.basePath) < PathRank(e.basePath)}
    IN [k \in 1..Len(groups) |-> CHOOSE e \in entries : Cardinality(before(e)) = k - 1]

groupByPageType(results, mapping) == sortEntries(groupLoop(results, mapping, 1, <<>>))

\* String.prototype.localeCompare on locale codes: their alphabetical order
localeCompare(x, y) ==
    LET LocaleAlphabet ==
            <<"ar", "de", "en", "es", "fr", "it", "ja", "ko", "nl", "pt", "zh">>
        rank(c) == CHOOSE k \in 1..Len(LocaleAlphabet) : LocaleAlphabet[k] = c
    IN IF rank(x) < rank(y) THEN -1 ELSE IF rank(x) > rank(y) THEN 1 ELSE 0

\* mutant: the comparator without its two 'en' cases
compareLocale_NoEnFirst(a, b) == localeCompare(a.locale, b.locale)

\* the comparator handed to pageResults.sort
compareLocale(a, b) ==
    IF a.locale = "en" THEN -1
    ELSE IF b.locale = "en" THEN 1
    ELSE localeCompare(a.locale, b.locale)

(* Array.prototype.sort as Node's V8 runs it on an array shorter than 64     *)
(* elements: the initial run is found (and reversed when descending), the    *)
(* other elements are added by binary insertion.  The comparator calls are   *)
(* those of the engine, so that the comparator's answer -1 for two 'en'      *)
(* records in either order is taken as the engine takes it.                  *)
RECURSIVE runEnd(_, _, _)
\* the last index of the run that starts at a[1], scanning from idx
runEnd(a, idx, isDescending) ==
    IF idx > Len(a) THEN Len(a)
    ELSE LET order == compareLocale(a[idx], a[idx - 1])
         IN IF (isDescending /\ order >= 0) \/ (~isDescending /\ order < 0)
            THEN idx - 1
            ELSE runEnd(a, idx + 1, isDescending)

RECURSIVE insertionPoint(_, _, _, _)
\* binary search of the place of pivot in the sorted range a[left..right-1]
insertionPoint(a, pivot, left, right) ==
    IF left >= right THEN left
    ELSE LET mid == left + ((right - left) \div 2)
         IN IF compareLocale(pivot, a[mid]) < 0
            THEN insertionPoint(a, pivot, left, mid)
            ELSE insertionPoint(a, pivot, mid + 1, right)

RECURSIVE binaryInsertionSort(_, _)
binaryInsertionSort(a, start) ==
    IF start > Len(a) THEN a
    ELSE LET pivot == a[start]
             left == insertionPoint(a, pivot, 1, start)
             moved == [k \in 1..Len(a) |->
                          IF k < left THEN a[k]
                          ELSE IF k = left THEN pivot
                          ELSE IF k <= start THEN a[k - 1]
                          ELSE a[k]]
         IN binaryInsertionSort(moved, start + 1)

\* pageResults.sort((a, b) => ...)
sortByLocale(a) ==
    IF Len(a) < 2 THEN a
    ELSE LET isDescending == compareLocale(a[2], a[1]) < 0
             runLength == runEnd(a, 3, isDescending)
             reversed == [k \in 1..Len(a) |->
                             IF k <= runLength THEN a[runLength + 1 - k] ELSE a[k]]
         IN binaryInsertionSort(IF isDescending THEN reversed ELSE a, runLength + 1)

\* generateGroupedRows: per group the header (title, count) and the rows of
\* its records in sorted order
generateGroupedRows(grouped) ==
    [k \in 1..Len(grouped) |->
        [basePath |-> grouped[k].basePath,
         pageCount |-> Len(grouped[k].pageResults),
         rows |-> sortByLocale(grouped[k].pageResults)]]

\* the results a report is generated from
MaxResults == 4

ResultLists ==
    LET ReportUrls ==
            { <<"/">>, <<"/", "pricing">>, <<"/", "plans">>, <<"/", "fr">>,
              <<"/", "fr", "/", "pricing">>, <<"/", "fr", "/", "tarifs">>,
              <<"/", "de", "/", "pricing">> }
    IN UNION {[1..n -> {[url |-> u] : u \in ReportUrls}] : n \in 0..MaxResults}

\* pages-mapping.json: absent or empty, or with a localized slug and an alias
EmptyMapping == [p \in {} |-> <<"/">>]

SlugMapping ==
    [p \in {<<"/", "fr", "/", "tarifs">>, <<"/", "plans">>} |-> <<"/", "pricing">>]

(***************************************************************************)
(* The sitemap import: the two versions of sitemap-parser.js and           *)
(* POST /api/sitemap.  A url of the sitemap is the pair of its host and    *)
(* its pathname; two urls are the same string when both are equal.         *)
(***************************************************************************)
\* pathname without its trailing slash, '/' kept
cleanPath(pathname) ==
    IF endsWith(pathname, <<"/">>) /\ pathname # <<"/">>
    THEN SubSeq(pathname, 1, Len(pathname) - 1)
    ELSE pathname

\* parsed.pathname === '/' ? '/' : parsed.pathname.replace(/\/$/, '')
mappingPath(pathname) ==
    IF pathname = <<"/">> THEN <<"/">>
    ELSE IF endsWith(pathname, <<"/">>) THEN SubSeq(pathname, 1, Len(pathname) - 1)
    ELSE pathname

isExcludedPath(pathname) ==
    LET EXCLUDED_PATHS ==
            { <<"/", "blog", "/">>, <<"/", "rto-materials", "/">>,
              <<"/", "alternatives", "/">> }
    IN \E excludedPath \in EXCLUDED_PATHS : includes(pathname, excludedPath)

isLocalizedUrl(pathname) ==
    LET EXCLUDED_LOCALES ==
            { "ar", "fr", "de", "es", "it", "pt", "ru", "zh", "ja", "ko", "nl", "pl",
              "sv", "tr", "he", "hi", "th", "vi", "id", "ms", "fil", "uk", "ro", "cs" }
    IN \E locale \in EXCLUDED_LOCALES :
           pathname = <<"/", locale>> \/ startsWith(pathname, <<"/", locale, "/">>)

\* the first segments of the template patterns /^\/{segment}\/[^\/]+$/
TEMPLATE_PATTERNS == <<"features", "team">>

EnglishTemplatePatterns == <<"rto-materials", "alternatives", "blog", "features", "team">>

\* the name of the first pattern that matches, null when none does
detectTemplate(pathname, patterns) ==
    LET matches(segment) ==
            /\ Len(pathname) >= 4
            /\ SubSeq(pathname, 1, 3) = <<"/", segment, "/">>
            /\ \A k \in 4..Len(pathname) : pathname[k] # "/"
        hits == {k \in 1..Len(patterns) : matches(patterns[k])}
    IN IF hits = {} THEN null
       ELSE <<"/", patterns[CHOOSE k \in hits : \A j \in hits : k <= j], "/", "[slug]">>

\* the locals of a filter loop before its first url; skipCount is the name
\* of the counter of the skipped urls
FilterStart(urls, skipCount) ==
    [filtered |-> <<>>, templateExamples |-> <<>>,
     stats |-> [c \in {"total", skipCount, "duplicateTemplates", "unique"} |->
                   IF c = "total" THEN Len(urls) ELSE 0]]

\* the end of a loop iteration for a path that was not skipped
keepPath(st, path, patterns) ==
    LET template == detectTemplate(path, patterns)
        seen == \E k \in 1..Len(st.templateExamples) :
                    st.templateExamples[k].template = template
    IN IF template # null /\ seen
       THEN [st EXCEPT !.stats.duplicateTemplates = @ + 1]
       ELSE [st EXCEPT
                !.templateExamples =
                    IF template # null
                    THEN Append(@, [template |-> template, example |-> path])
                    ELSE @,
                !.filtered = Append(@, path),
                !.stats.unique = @ + 1]

\* one iteration of filterUrls of the English version: /ar is kept as the
\* localization example, the other localized urls are skipped
englishStep(st, url) ==
    LET path == cleanPath(url.pathname)
    IN IF path = <<"/", "ar">>
       THEN [st EXCEPT !.filtered = Append(@, path), !.stats.unique = @ + 1]
       ELSE IF isLocalizedUrl(path)
       THEN [st EXCEPT !.stats.localized = @ + 1]
       ELSE keepPath(st, path, EnglishTemplatePatterns)

\* one iteration of filterUrls of the all-languages version and of the loop
\* of /api/sitemap: the excluded paths are skipped
filterStep(st, url) ==
    LET path == cleanPath(url.pathname)
    IN IF isExcludedPath(path)
       THEN [st EXCEPT !.stats.excluded = @ + 1]
       ELSE keepPath(st, path, TEMPLATE_PATTERNS)

RECURSIVE filterUrlsEnglishFrom(_, _, _)
filterUrlsEnglishFrom(urls, i, st) ==
    IF i > Len(urls) THEN st
    ELSE filterUrlsEnglishFrom(urls, i + 1, englishStep(st, urls[i]))

\* filterUrls of the version that keeps the English pages
filterUrlsEnglish(urls) == filterUrlsEnglishFrom(urls, 1, FilterStart(urls, "localized"))

RECURSIVE filterUrlsFrom(_, _, _)
filterUrlsFrom(urls, i, st) ==
    IF i > Len(urls) THEN st
    ELSE filterUrlsFrom(urls, i + 1, filterStep(st, urls[i]))

\* filterUrls of the version that keeps all languages
filterUrls(urls) == filterUrlsFrom(urls, 1, FilterStart(urls, "excluded"))

\* parseXml: the text of every <loc> of a <url>
parseXml(nodes) == [k \in 1..Len(nodes) |-> nodes[k].loc]

\* urlsSet.add(url): a Set keeps the first occurrence of a string
setAdd(urls, url) ==
    IF \E k \in 1..Len(urls) : urls[k] = url THEN urls ELSE Append(urls, url)

RECURSIVE addLinks(_, _, _)
\* the hreflang links of a node other than x-default
addLinks(urls, links, j) ==
    IF j > Len(links) THEN urls
    ELSE addLinks(IF links[j].hreflang # "x-default" THEN setAdd(urls, links[j].href)
                  ELSE urls,
                  links, j + 1)

RECURSIVE collectUrls(_, _, _)
\* urlsSet after the nodes from index i on: <loc>, then the hreflang links
collectUrls(nodes, i, urls) ==
    IF i > Len(nodes) THEN urls
    ELSE collectUrls(nodes, i + 1, addLinks(setAdd(urls, nodes[i].loc), nodes[i].links, 1))

\* enUrl of a node: the path of its last hreflang="en" link, null without one
enUrlOf(links) ==
    LET ens == {j \in 1..Len(links) : links[j].hreflang = "en"}
    IN IF ens = {} THEN null
       ELSE Some(mappingPath(links[CHOOSE j \in ens : \A k \in ens : k <= j].href.pathname))

RECURSIVE mapLinks(_, _, _, _)
\* pagesMapping[localizedPath] = enUrl for the links of a node
mapLinks(mapping, links, enUrl, j) ==
    IF j > Len(links) THEN mapping
    ELSE LET link == links[j]
             localizedPath == mappingPath(link.href.pathname)
             isExcluded == isExcludedPath(localizedPath) \/ isExcludedPath(enUrl)
         IN mapLinks(IF /\ link.hreflang \notin {"x-default", "en"}
                        /\ localizedPath # enUrl /\ ~isExcluded
                     THEN [p \in DOMAIN mapping \cup {localizedPath} |->
                              IF p = localizedPath THEN enUrl ELSE mapping[p]]
                     ELSE mapping,
                     links, enUrl, j + 1)

RECURSIVE buildMapping(_, _, _)
\* pagesMapping after the nodes from index i on
buildMapping(nodes, i, mapping) ==
    IF i > Len(nodes) THEN mapping
    ELSE LET enUrl == enUrlOf(nodes[i].links)
         IN buildMapping(nodes, i + 1,
                         IF enUrl = null THEN mapping
                         ELSE mapLinks(mapping, nodes[i].links, enUrl[1], 1))

\* the sitemaps of the model
MaxNodes == 3

\* a <url> with its <loc> only, or with its hreflang alternates
UrlNodes ==
    LET SiteUrl(host, pathname) == [host |-> host, pathname |-> pathname]
        Www == "www.coursebox.ai"
        PricingUrl == SiteUrl(Www, <<"/", "pricing">>)
        FrenchUrl == SiteUrl(Www, <<"/", "fr", "/", "tarifs">>)
        SitemapUrls ==
            { PricingUrl,
              SiteUrl(Www, <<"/", "pricing", "/">>),
              SiteUrl("coursebox.ai", <<"/", "pricing">>),
              SiteUrl(Www, <<"/", "features", "/", "quiz">>),
              SiteUrl(Www, <<"/", "features", "/", "chat">>),
              SiteUrl(Www, <<"/", "blog", "/", "post">>),
              SiteUrl(Www, <<"/", "ar">>),
              FrenchUrl }
        Link(hreflang, href) == [hreflang |-> hreflang, href |-> href]
    IN {[loc |-> u, links |-> <<>>] : u \in SitemapUrls}
       \cup { [loc |-> PricingUrl,
               links |-> <<Link("x-default", PricingUrl), Link("en", PricingUrl),
                           Link("fr", FrenchUrl)>>],
              [loc |-> FrenchUrl,
               links |-> <<Link("en", SiteUrl(Www, <<"/", "pricing", "/">>)),
                           Link("fr", FrenchUrl)>>] }

Sitemaps == UNION {[1..n -> UrlNodes] : n \in 0..MaxNodes}

\* no report is being generated and no import has run
InitToolsIdle ==
    /\ reportResults = <<>>
    /\ pagesMapping = EmptyMapping
    /\ groupedResults = null
    /\ sortedGroups = null
    /\ sitemap = <<>>
    /\ imported = null
    /\ sitemapComparison = null

(***************************************************************************)
(* compareSitemaps (src/lib/sitemap-compare.js).  A grouped sitemap, a Map *)
(* slug -> group, is the sequence of its entries in insertion order, with  *)
(* distinct slugs; of a group the languages, the keys of its hreflangs and *)
(* hasXDefault are kept.                                                   *)
(***************************************************************************)
MaxSlugs == 2

EXPECTED_LANGUAGES == <<"ar", "es", "de", "fr", "pt", "it", "zh", "ko", "ja", "nl", "en">>

\* mutant: a missing x-default does not spoil a perfect match
compareSlug_XDefaultStillPerfect(acc, webflowData, nextjsGrouped) ==
    LET found == {k \in 1..Len(nextjsGrouped) : nextjsGrouped[k].slug = webflowData.slug}
    IN IF found = {}
       THEN [acc EXCEPT !.issues.missingInNextjs =
                Append(@, [slug |-> webflowData.slug, languages |-> webflowData.languages])]
       ELSE LET nextjsData == nextjsGrouped[CHOOSE k \in found : TRUE]
                missingLangs == SelectSeq(EXPECTED_LANGUAGES, LAMBDA lang :
                    /\ lang \in webflowData.languages \/ lang \in webflowData.hreflangs
                    /\ ~(lang \in nextjsData.languages \/ lang \in nextjsData.hreflangs))
                xDefaultMissing == webflowData.hasXDefault /\ ~nextjsData.hasXDefault
            IN [acc EXCEPT
                  !.stats.matchingSlugs = @ + 1,
                  !.issues.missingLanguages =
                      IF Len(missingLangs) > 0
                      THEN Append(@, [slug |-> webflowData.slug, missing |-> missingLangs,
                                      hasInWebflow |-> webflowData.languages,
                                      hasInNextjs |-> nextjsData.languages])
                      ELSE @,
                  !.issues.missingXDefault =
                      IF xDefaultMissing THEN Append(@, webflowData.slug) ELSE @,
                  !.stats.perfectMatch = IF missingLangs = <<>> THEN @ + 1 ELSE @]

\* the body of the loop over webflowGrouped, for the entry webflowData
compareSlug(acc, webflowData, nextjsGrouped) ==
    LET found == {k \in 1..Len(nextjsGrouped) : nextjsGrouped[k].slug = webflowData.slug}
    IN IF found = {}
       THEN [acc EXCEPT !.issues.missingInNextjs =
                Append(@, [slug |-> webflowData.slug, languages |-> webflowData.languages])]
       ELSE LET nextjsData == nextjsGrouped[CHOOSE k \in found : TRUE]
                missingLangs == SelectSeq(EXPECTED_LANGUAGES, LAMBDA lang :
                    /\ lang \in webflowData.languages \/ lang \in webflowData.hreflangs
                    /\ ~(lang \in nextjsData.languages \/ lang \in nextjsData.hreflangs))
                xDefaultMissing == webflowData.hasXDefault /\ ~nextjsData.hasXDefault
                isPerfect == missingLangs = <<>> /\ ~xDefaultMissing
            IN [acc EXCEPT
                  !.stats.matchingSlugs = @ + 1,
                  !.issues.missingLanguages =
                      IF Len(missingLangs) > 0
                      THEN Append(@, [slug |-> webflowData.slug, missing |-> missingLangs,
                                      hasInWebflow |-> webflowData.languages,
                                      hasInNextjs |-> nextjsData.languages])
                      ELSE @,
                  !.issues.missingXDefault =
                      IF xDefaultMissing THEN Append(@, webflowData.slug) ELSE @,
                  !.stats.perfectMatch = IF isPerfect THEN @ + 1 ELSE @]

compareSitemaps(webflowGrouped, nextjsGrouped) ==
    LET start == [ issues |-> [ missingInNextjs |-> <<>>, missingInWebflow |-> <<>>,
                                missingLanguages |-> <<>>, missingXDefault |-> <<>> ],
                   stats |-> [ webflowSlugs |-> Len(webflowGrouped),
                               nextjsSlugs |-> Len(nextjsGrouped),
                               matchingSlugs |-> 0, perfectMatch |-> 0 ] ]
        first[k \in 0..Len(webflowGrouped)] ==
            IF k = 0 THEN start
            ELSE compareSlug(first[k - 1], webflowGrouped[k], nextjsGrouped)
        second[k \in 0..Len(nextjsGrouped)] ==
            IF k = 0 THEN first[Len(webflowGrouped)]
            ELSE IF \E j \in 1..Len(webflowGrouped) :
                        webflowGrouped[j].slug = nextjsGrouped[k].slug
                 THEN second[k - 1]
                 ELSE [second[k - 1] EXCEPT !.issues.missingInWebflow =
                          Append(@, [slug |-> nextjsGrouped[k].slug,
                                     languages |-> nextjsGrouped[k].languages])]
    IN second[Len(nextjsGrouped)]

\* the grouped sitemaps of up to MaxSlugs slugs, as groupByCanonicalSlug
\* builds them: the languages include the hreflang keys other than
\* x-default, and hasXDefault says whether x-default is among the keys
GroupedSitemaps ==
    LET Slugs == {"__homepage__", "pricing", "blog/post"}
        Groups == { [languages |-> {"en"}, hreflangs |-> {}, hasXDefault |-> FALSE],
                    [languages |-> {"en"}, hreflangs |-> {"en", "x-default"},
                     hasXDefault |-> TRUE],
                    [languages |-> {"en", "fr"}, hreflangs |-> {"en", "fr"},
                     hasXDefault |-> FALSE],
                    [languages |-> {"en", "fr"}, hreflangs |-> {"en", "fr", "x-default"},
                     hasXDefault |-> TRUE] }
        Entries == { [slug |-> s, languages |-> g.languages, hreflangs |-> g.hreflangs,
                      hasXDefault |-> g.hasXDefault] : s \in Slugs, g \in Groups }
    IN UNION { { m \in [1..n -> Entries] :
                    \A i, j \in 1..n : m[i].slug = m[j].slug => i = j } : n \in 0..MaxSlugs }

(***************************************************************************)
(* runWarmup and POST /api/warmup                                          *)
(***************************************************************************)
MaxWarmupRequests == 3

\* a runWarmup call: its position, its session, urls.length, batchStart,
\* results.length and how it ended
IdleWarmup ==
    [ pc |-> "idle", socketId |-> "none", total |-> 0, batchStart |-> 0,
      fetched |-> 0, outcome |-> "none" ]

\* one iteration of the for loop of runWarmup up to its await: the stop
\* check, then the batch
warmupLoop(st, b) ==
    LET job == st.jobs[st.run.socketId]
    IN IF job # null /\ job[1].stopped
       THEN [ run |-> [st.run EXCEPT !.pc = "done", !.batchStart = b,
                                     !.outcome = "stopped"],
              jobs |-> [st.jobs EXCEPT ![st.run.socketId] = null] ]
       ELSE [st EXCEPT !.run = [st.run EXCEPT !.pc = "fetching", !.batchStart = b]]

\* mutant: no check for a warmup already running
warmupError_NoRunningCheck(s) ==
    IF sockets[s] # "connected" THEN Some(<<"Socket connection not found">>)
    ELSE null

\* the checks of POST /api/warmup after the input checks: the error the
\* request is answered with, null when runWarmup is called
warmupError(s) ==
    IF sockets[s] # "connected" THEN Some(<<"Socket connection not found">>)
    ELSE IF activeWarmupJobs[s] # null THEN Some(<<"Warmup already running">>)
    ELSE null

(***************************************************************************)
(* Actions of the server                                                   *)
(***************************************************************************)
\* the state right after server.listen
InitServer ==
    /\ sockets = [s \in SocketIds |-> "new"]
    /\ activeParsingJobs = [s \in SocketIds |-> null]
    /\ runs = [r \in RunIds |-> IdleRun]
    /\ files = [f \in FileNames |-> NoRun]
    /\ activeWarmupJobs = [s \in SocketIds |-> null]
    /\ warmupRuns = [r \in RunIds |-> IdleWarmup]
    /\ warmupAnswers = <<>>

\* io.on('connection')
Connect(s) ==
    /\ sockets[s] = "new"
    /\ \A q \in SocketIds : SocketIndex(q) < SocketIndex(s) => sockets[q] # "new"
    /\ sockets' = [sockets EXCEPT ![s] = "connected"]
    /\ UNCHANGED <<cmpVars, toolVars, activeWarmupJobs, warmupRuns, warmupAnswers, activeParsingJobs, runs, files, BATCH_SIZE>>

\* socket.on('disconnect')
Disconnect(s) ==
    /\ sockets[s] = "connected"
    /\ sockets' = [sockets EXCEPT ![s] = "closed"]
    /\ activeParsingJobs' = [activeParsingJobs EXCEPT ![s] = null]
    /\ activeWarmupJobs' = [activeWarmupJobs EXCEPT ![s] = null]
    /\ UNCHANGED <<cmpVars, toolVars, warmupRuns, warmupAnswers, runs, files, BATCH_SIZE>>

\* POST /api/parse with socketId s, urls-main.txt holding n paths: runParser
\* is called and runs to its first await
ApiParse(s, r, n) ==
    /\ sockets[s] = "connected"
    /\ runs[r].pc = "idle"
    /\ \A q \in RunIds : RunIndex(q) < RunIndex(r) => runs[q].pc # "idle"
    /\ TotalUrls(RunIds) + n <= MaxUrls
    /\ LET run == emit([IdleRun EXCEPT !.socketId = s, !.urls = urlsOf(r, n)],
                       [type |-> "start", total |-> n])
           jobs == [activeParsingJobs EXCEPT ![s] = Some([stopped |-> FALSE])]
           st == forLoop([run |-> run, jobs |-> jobs], 0)
       IN /\ runs' = [runs EXCEPT ![r] = st.run]
          /\ activeParsingJobs' = st.jobs
    /\ UNCHANGED <<cmpVars, toolVars, activeWarmupJobs, warmupRuns, warmupAnswers, sockets, files, BATCH_SIZE>>

\* POST /api/stop with socketId s
ApiStop(s) ==
    /\ IF activeParsingJobs[s] # null
       THEN /\ activeParsingJobs' =
                [activeParsingJobs EXCEPT ![s] = Some([@[1] EXCEPT !.stopped = TRUE])]
            /\ runs' = [r \in RunIds |->
                IF runs[r].socketId = s /\ InProgress(runs[r]) /\ runs[r].stopAt = null
                THEN [runs[r] EXCEPT !.stopAt = Some([pc |-> runs[r].pc,
                                                      batchStart |-> runs[r].batchStart])]
                ELSE runs[r]]
       ELSE UNCHANGED <<activeParsingJobs, runs>>
    /\ UNCHANGED <<cmpVars, toolVars, activeWarmupJobs, warmupRuns, warmupAnswers, sockets, files, BATCH_SIZE>>

\* task i of the current batch returns: both fetches of its Promise.all are
\* settled with the hosts' answers and comparePages has run; with the last
\* task of the batch, await Promise.all(batchPromises) continues
BatchTaskDone(r, i, answers) ==
    /\ runs[r].pc = "fetching"
    /\ i \in 1..Len(runs[r].tasks)
    /\ runs[r].tasks[i] = PendingTask
    /\ LET st == settle([run |-> runs[r], jobs |-> activeParsingJobs], i, answers, checks)
       IN /\ runs' = [runs EXCEPT ![r] = st.run]
          /\ activeParsingJobs' = st.jobs
    /\ UNCHANGED <<cmpVars, toolVars, activeWarmupJobs, warmupRuns, warmupAnswers, sockets, files, BATCH_SIZE>>

\* await delay(DELAY_BETWEEN_BATCHES) is over: batchStart += BATCH_SIZE
DelayElapsed(r) ==
    /\ runs[r].pc = "delay"
    /\ LET st == forLoop([run |-> runs[r], jobs |-> activeParsingJobs],
                         runs[r].batchStart + BATCH_SIZE)
       IN /\ runs' = [runs EXCEPT ![r] = st.run]
          /\ activeParsingJobs' = st.jobs
    /\ UNCHANGED <<cmpVars, toolVars, activeWarmupJobs, warmupRuns, warmupAnswers, sockets, files, BATCH_SIZE>>

\* generateCsvReport: csvWriter.writeRecords(results) settled
CsvMainWritten(r, ok) ==
    /\ runs[r].pc = "csvMain"
    /\ IF ok
       THEN /\ files' = [files EXCEPT ![CsvMain] = r]
            /\ runs' = [runs EXCEPT ![r].pc = "csvEnglish"]
            /\ UNCHANGED activeParsingJobs
       ELSE LET st == abort([run |-> runs[r], jobs |-> activeParsingJobs],
                            WriteError(CsvMain))
            IN /\ runs' = [runs EXCEPT ![r] = st.run]
               /\ activeParsingJobs' = st.jobs
               /\ UNCHANGED files
    /\ UNCHANGED <<cmpVars, toolVars, activeWarmupJobs, warmupRuns, warmupAnswers, sockets, BATCH_SIZE>>

\* splitReportsByLanguage: englishWriter.writeRecords settled
CsvEnglishWritten(r, ok) ==
    /\ runs[r].pc = "csvEnglish"
    /\ IF ok
       THEN /\ files' = [files EXCEPT ![CsvEnglish] = r]
            /\ runs' = [runs EXCEPT ![r].pc = "csvOther"]
            /\ UNCHANGED activeParsingJobs
       ELSE LET st == abort([run |-> runs[r], jobs |-> activeParsingJobs],
                            WriteError(CsvEnglish))
            IN /\ runs' = [runs EXCEPT ![r] = st.run]
               /\ activeParsingJobs' = st.jobs
               /\ UNCHANGED files
    /\ UNCHANGED <<cmpVars, toolVars, activeWarmupJobs, warmupRuns, warmupAnswers, sockets, BATCH_SIZE>>

\* otherWriter.writeRecords settled; then, without a further await,
\* generateHtmlReport, summary.json, the 'complete' event.  failing names the
\* write that throws, NoRun when none does.
CsvOtherWritten(r, failing) ==
    /\ runs[r].pc = "csvOther"
    /\ LET written == CASE failing = CsvOther -> {}
                        [] failing = HtmlReport -> {CsvOther}
                        [] failing = SummaryJson -> {CsvOther, HtmlReport}
                        [] OTHER -> {CsvOther, HtmlReport, SummaryJson}
           st0 == [run |-> runs[r], jobs |-> activeParsingJobs]
           st == IF failing = NoRun THEN complete(st0) ELSE abort(st0, WriteError(failing))
       IN /\ files' = [f \in FileNames |-> IF f \in written THEN r ELSE files[f]]
          /\ runs' = [runs EXCEPT ![r] = st.run]
          /\ activeParsingJobs' = st.jobs
    /\ UNCHANGED <<cmpVars, toolVars, activeWarmupJobs, warmupRuns, warmupAnswers, sockets, BATCH_SIZE>>

Next ==
    \/ \E s \in SocketIds : Connect(s)
    \/ \E s \in SocketIds : Disconnect(s)
    \/ \E s \in SocketIds, r \in OneRun, n \in 0..MaxUrls : ApiParse(s, r, n)
    \/ \E s \in SocketIds : ApiStop(s)
    \/ \E r \in OneRun, i \in 1..MaxUrls, answers \in RunAnswers :
         BatchTaskDone(r, i, answers)
    \/ \E r \in OneRun : DelayElapsed(r)
    \/ \E r \in OneRun, ok \in BOOLEAN : CsvMainWritten(r, ok)
    \/ \E r \in OneRun, ok \in BOOLEAN : CsvEnglishWritten(r, ok)
    \/ \E r \in OneRun, failing \in {NoRun, CsvOther, HtmlReport, SummaryJson} :
         CsvOtherWritten(r, failing)

Init ==
    /\ InitServer
    /\ InitToolsIdle
    /\ BATCH_SIZE \in BatchSizes
    /\ checks = AllChecks
    /\ prodResp = <<>> /\ devResp = <<>> /\ comparison = NoComparison

Spec == Init /\ [][Next]_vars

(***************************************************************************)
(* SpecObserver: the server of Spec with a progress observer that may      *)
(* fail: socket.emit throws on a 'start', 'fetching' or 'compared'         *)
(* notification.                                                           *)
(***************************************************************************)
ObserverError == <<"socket.emit failed">>

\* POST /api/parse where the 'start' notification throws: the job is set, the
\* emit is before the try block, so runParser rejects with the job left in
\* the registry; the .catch of /api/parse emits 'error'
ApiParseEmitThrows(s, r, n) ==
    /\ sockets[s] = "connected"
    /\ runs[r].pc = "idle"
    /\ \A q \in RunIds : RunIndex(q) < RunIndex(r) => runs[q].pc # "idle"
    /\ TotalUrls(RunIds) + n <= MaxUrls
    /\ runs' = [runs EXCEPT ![r] =
                  [ emit([IdleRun EXCEPT !.socketId = s, !.urls = urlsOf(r, n)],
                         [type |-> "error", message |-> ObserverError])
                    EXCEPT !.pc = "done", !.thrown = Some(ObserverError) ]]
    /\ activeParsingJobs' = [activeParsingJobs EXCEPT ![s] = Some([stopped |-> FALSE])]
    /\ UNCHANGED <<cmpVars, toolVars, activeWarmupJobs, warmupRuns, warmupAnswers, sockets, files, BATCH_SIZE>>

\* the delay is over, the stop flag is not set and the 'fetching' notification
\* of the next batch throws inside the try block
DelayElapsedEmitThrows(r) ==
    /\ runs[r].pc = "delay"
    /\ LET job == activeParsingJobs[runs[r].socketId]
       IN ~(job # null /\ job[1].stopped)
    /\ LET st == abort([run |-> [runs[r] EXCEPT !.batchStart = @ + BATCH_SIZE],
                        jobs |-> activeParsingJobs], ObserverError)
       IN /\ runs' = [runs EXCEPT ![r] = st.run]
          /\ activeParsingJobs' = st.jobs
    /\ UNCHANGED <<cmpVars, toolVars, activeWarmupJobs, warmupRuns, warmupAnswers, sockets, files, BATCH_SIZE>>

\* the last task of the batch returns, the batch is pushed to results and the
\* first 'compared' notification throws
BatchTaskDoneEmitThrows(r, i, answers) ==
    /\ runs[r].pc = "fetching"
    /\ i \in 1..Len(runs[r].tasks)
    /\ runs[r].tasks[i] = PendingTask
    /\ \A j \in 1..Len(runs[r].tasks) : j # i => runs[r].tasks[j] # PendingTask
    /\ LET run == runs[r]
           path == run.urls[run.batchStart + i]
           tasks == [run.tasks EXCEPT ![i] = Some(batchTask(path, answers, checks))]
           run1 == [run EXCEPT !.tasks = <<>>, !.results = @ \o batchResults(tasks)]
           st == abort([run |-> run1, jobs |-> activeParsingJobs], ObserverError)
       IN /\ runs' = [runs EXCEPT ![r] = st.run]
          /\ activeParsingJobs' = st.jobs
    /\ UNCHANGED <<cmpVars, toolVars, activeWarmupJobs, warmupRuns, warmupAnswers, sockets, files, BATCH_SIZE>>

NextObserver ==
    \/ Next
    \/ \E s \in SocketIds, r \in OneRun, n \in 0..MaxUrls : ApiParseEmitThrows(s, r, n)
    \/ \E r \in OneRun : DelayElapsedEmitThrows(r)
    \/ \E r \in OneRun, i \in 1..MaxUrls, answers \in RunAnswers :
         BatchTaskDoneEmitThrows(r, i, answers)

SpecObserver == Init /\ [][NextObserver]_vars

(***************************************************************************)
(* SpecTwo: two /api/parse requests, on the same socket or on two, whose   *)
(* runs may be in progress together.  To keep the product of the two runs  *)
(* small every path gets the same answers, the batch size is 1 and the     *)
(* report writes succeed.                                                  *)
(***************************************************************************)
TwoRunAnswers == <<Resolved(200, BasePage, NoHops), Resolved(200, BasePage, NoHops)>>

InitTwo ==
    /\ InitServer
    /\ InitToolsIdle
    /\ BATCH_SIZE = 1
    /\ checks = AllChecks
    /\ prodResp = <<>> /\ devResp = <<>> /\ comparison = NoComparison

NextTwo ==
    \/ \E s \in SocketIds : Connect(s)
    \/ \E s \in SocketIds, r \in RunIds, n \in 1..MaxUrls : ApiParse(s, r, n)
    \/ \E s \in SocketIds : ApiStop(s)
    \/ \E r \in RunIds, i \in 1..MaxUrls : BatchTaskDone(r, i, TwoRunAnswers)
    \/ \E r \in RunIds : DelayElapsed(r)
    \/ \E r \in RunIds : CsvMainWritten(r, TRUE)
    \/ \E r \in RunIds : CsvEnglishWritten(r, TRUE)
    \/ \E r \in RunIds : CsvOtherWritten(r, NoRun)

SpecTwo == InitTwo /\ [][NextTwo]_vars

(***************************************************************************)
(* SpecCmp: one path through the body of the batch task of runParser,      *)
(* both fetches followed by comparePages, for every pair of answers and    *)
(* every CheckSet.                                                         *)
(***************************************************************************)
prodData == fetchPageData(PagePath, prodResp, checks)

devData == fetchPageData(PagePath, devResp, checks)

InitCmp ==
    /\ checks \in CheckSets
    /\ prodResp \in Responses(ProdPages)
    /\ devResp \in Responses(DevPages)
    /\ comparison = NoComparison
    /\ InitServer
    /\ InitToolsIdle
    /\ BATCH_SIZE = 1

ComparePath ==
    /\ comparison = NoComparison
    /\ comparison' = Some(comparePages(prodData, devData, checks))
    /\ UNCHANGED <<checks, prodResp, devResp, serverVars, toolVars>>

NextCmp == ComparePath

SpecCmp == InitCmp /\ [][NextCmp]_vars

(***************************************************************************)
(* SpecReport: generateHtmlReport groups a result list with                *)
(* groupByPageType and renders the groups with generateGroupedRows, for    *)
(* every result list of up to MaxResults urls and either mapping file.     *)
(***************************************************************************)
InitReport ==
    /\ reportResults \in ResultLists
    /\ pagesMapping \in {EmptyMapping, SlugMapping}
    /\ groupedResults = null
    /\ sortedGroups = null
    /\ sitemap = <<>> /\ imported = null /\ sitemapComparison = null
    /\ InitServer
    /\ BATCH_SIZE = 1
    /\ checks = AllChecks
    /\ prodResp = <<>> /\ devResp = <<>> /\ comparison = NoComparison

\* const groupedResults = groupByPageType(results)
GroupByPageType ==
    /\ groupedResults = null
    /\ groupedResults' = Some(groupByPageType(reportResults, pagesMapping))
    /\ UNCHANGED <<reportResults, pagesMapping, sortedGroups, sitemap, imported, sitemapComparison, cmpVars, serverVars>>

\* const rows = generateGroupedRows(groupedResults, ...); pageResults.sort
\* sorts the arrays of the Map in place
GenerateGroupedRows ==
    /\ groupedResults # null
    /\ sortedGroups = null
    /\ sortedGroups' = Some(generateGroupedRows(groupedResults[1]))
    /\ groupedResults' =
          Some([k \in 1..Len(groupedResults[1]) |->
                   [groupedResults[1][k] EXCEPT !.pageResults = sortByLocale(@)]])
    /\ UNCHANGED <<reportResults, pagesMapping, sitemap, imported, sitemapComparison, cmpVars, serverVars>>

NextReport == GroupByPageType \/ GenerateGroupedRows

SpecReport == InitReport /\ [][NextReport]_vars

(***************************************************************************)
(* SpecSitemap: one import of a sitemap of up to MaxNodes <url> nodes, by  *)
(* either version of sitemap-parser.js or by POST /api/sitemap.            *)
(***************************************************************************)
InitSitemap ==
    /\ sitemap \in Sitemaps
    /\ imported = null
    /\ reportResults = <<>> /\ pagesMapping = EmptyMapping
    /\ groupedResults = null /\ sortedGroups = null
    /\ sitemapComparison = null
    /\ InitServer
    /\ BATCH_SIZE = 1
    /\ checks = AllChecks
    /\ prodResp = <<>> /\ devResp = <<>> /\ comparison = NoComparison

\* what saveResults writes: the url list and the statistics
savedBy(script, st) ==
    [by |-> script,
     urls |-> Some(st.filtered),
     answer |-> [stats |-> st.stats, templates |-> Len(st.templateExamples)]]

\* main() of sitemap-parser.js, the version that keeps the English pages
SitemapParserEnglish ==
    /\ imported = null
    /\ imported' = Some(savedBy("sitemap-parser.js (English)",
                                filterUrlsEnglish(parseXml(sitemap))))
    /\ UNCHANGED <<sitemap, reportResults, pagesMapping, groupedResults, sortedGroups,
                   sitemapComparison, cmpVars, serverVars>>

\* main() of sitemap-parser.js, the version that keeps all languages
SitemapParser ==
    /\ imported = null
    /\ imported' = Some(savedBy("sitemap-parser.js", filterUrls(parseXml(sitemap))))
    /\ UNCHANGED <<sitemap, reportResults, pagesMapping, groupedResults, sortedGroups,
                   sitemapComparison, cmpVars, serverVars>>

\* POST /api/sitemap: pages-mapping.json is written first, urls-main.txt
\* only when the sitemap holds a url
ApiSitemap ==
    /\ imported = null
    /\ LET urls == collectUrls(sitemap, 1, <<>>)
           mapping == buildMapping(sitemap, 1, EmptyMapping)
           st == filterUrls(urls)
       IN /\ pagesMapping' = mapping
          /\ imported' =
                IF urls = <<>>
                THEN Some([by |-> "/api/sitemap", urls |-> null,
                           answer |-> [success |-> FALSE,
                                       error |-> <<"No URLs found in sitemap">>]])
                ELSE Some([by |-> "/api/sitemap", urls |-> Some(st.filtered),
                           answer |-> [success |-> TRUE,
                                       count |-> Len(st.filtered),
                                       total |-> Len(urls),
                                       templates |-> Len(st.templateExamples),
                                       mappings |-> Cardinality(DOMAIN mapping)]])
    /\ UNCHANGED <<sitemap, reportResults, groupedResults, sortedGroups, sitemapComparison, cmpVars, serverVars>>

NextSitemap == SitemapParserEnglish \/ SitemapParser \/ ApiSitemap

SpecSitemap == InitSitemap /\ [][NextSitemap]_vars

(***************************************************************************)
(* SpecCompare: compareSitemaps is called with a pair of grouped sitemaps. *)
(***************************************************************************)
InitCompare ==
    /\ sitemapComparison \in [ webflowGrouped : GroupedSitemaps,
                               nextjsGrouped : GroupedSitemaps, result : {null} ]
    /\ reportResults = <<>> /\ pagesMapping = EmptyMapping
    /\ groupedResults = null /\ sortedGroups = null
    /\ sitemap = <<>> /\ imported = null
    /\ InitServer
    /\ BATCH_SIZE = 1
    /\ checks = AllChecks
    /\ prodResp = <<>> /\ devResp = <<>> /\ comparison = NoComparison

\* const { issues, stats } = compareSitemaps(webflowGrouped, nextjsGrouped)
CompareSitemaps ==
    /\ sitemapComparison.result = null
    /\ sitemapComparison' =
          [sitemapComparison EXCEPT !.result =
              Some(compareSitemaps(sitemapComparison.webflowGrouped,
                                   sitemapComparison.nextjsGrouped))]
    /\ UNCHANGED <<reportResults, pagesMapping, groupedResults, sortedGroups, sitemap,
                   imported, cmpVars, serverVars>>

NextCompare == CompareSitemaps

SpecCompare == InitCompare /\ [][NextCompare]_vars

(***************************************************************************)
(* SpecWarmup: the cache warmup of a site.  POST /api/warmup starts        *)
(* runWarmup for a session unless the registry has an entry for it; the    *)
(* requests carry a baseUrl and urls-main.txt holds n >= 1 paths.  The     *)
(* fetches of a batch are answered together, and the reports are written   *)
(* in one step that may fail.                                              *)
(***************************************************************************)
InitWarmup ==
    /\ InitServer
    /\ InitToolsIdle
    /\ BATCH_SIZE \in BatchSizes
    /\ checks = AllChecks
    /\ prodResp = <<>> /\ devResp = <<>> /\ comparison = NoComparison

\* POST /api/warmup with socketId s and n paths in urls-main.txt; r is the
\* runWarmup call it makes when the request is accepted
ApiWarmup(s, r, n) ==
    /\ Len(warmupAnswers) < MaxWarmupRequests
    /\ LET error == warmupError(s)
       IN IF error # null
          THEN /\ warmupAnswers' = Append(warmupAnswers, [socketId |-> s, error |-> error])
               /\ UNCHANGED <<warmupRuns, activeWarmupJobs>>
          ELSE /\ warmupRuns[r].pc = "idle"
               /\ \A q \in RunIds : RunIndex(q) < RunIndex(r) => warmupRuns[q].pc # "idle"
               /\ warmupAnswers' = Append(warmupAnswers, [socketId |-> s, error |-> null])
               /\ LET st == warmupLoop([run |-> [IdleWarmup EXCEPT !.socketId = s, !.total = n],
                                        jobs |-> [activeWarmupJobs EXCEPT
                                                    ![s] = Some([stopped |-> FALSE])]], 0)
                  IN /\ warmupRuns' = [warmupRuns EXCEPT ![r] = st.run]
                     /\ activeWarmupJobs' = st.jobs
    /\ UNCHANGED <<cmpVars, toolVars, sockets, activeParsingJobs, runs, files, BATCH_SIZE>>

\* POST /api/warmup/stop with socketId s
ApiWarmupStop(s) ==
    /\ activeWarmupJobs[s] # null
    /\ ~activeWarmupJobs[s][1].stopped
    /\ activeWarmupJobs' = [activeWarmupJobs EXCEPT ![s] = Some([stopped |-> TRUE])]
    /\ UNCHANGED <<cmpVars, toolVars, sockets, activeParsingJobs, runs, files, BATCH_SIZE,
                   warmupRuns, warmupAnswers>>

\* await Promise.all(batchPromises) of run r continues: the results are
\* pushed and notified, then the delay or the reports
WarmupBatchDone(r) ==
    /\ warmupRuns[r].pc = "fetching"
    /\ LET run == warmupRuns[r]
           end == IF run.batchStart + BATCH_SIZE < run.total
                  THEN run.batchStart + BATCH_SIZE ELSE run.total
       IN warmupRuns' = [warmupRuns EXCEPT ![r] =
              [run EXCEPT !.fetched = end,
                          !.pc = IF end < run.total THEN "delay" ELSE "reports"]]
    /\ UNCHANGED <<cmpVars, toolVars, sockets, activeParsingJobs, runs, files, BATCH_SIZE,
                   activeWarmupJobs, warmupAnswers>>

\* await delay(DELAY_BETWEEN_BATCHES) of run r is over
WarmupDelayElapsed(r) ==
    /\ warmupRuns[r].pc = "delay"
    /\ LET st == warmupLoop([run |-> warmupRuns[r], jobs |-> activeWarmupJobs],
                            warmupRuns[r].batchStart + BATCH_SIZE)
       IN /\ warmupRuns' = [warmupRuns EXCEPT ![r] = st.run]
          /\ activeWarmupJobs' = st.jobs
    /\ UNCHANGED <<cmpVars, toolVars, sockets, activeParsingJobs, runs, files, BATCH_SIZE,
                   warmupAnswers>>

\* generateWarmupCsvReport settled, then the HTML report, the summary and
\* 'complete'; or a write threw and the catch block rethrows
WarmupReportsWritten(r, ok) ==
    /\ warmupRuns[r].pc = "reports"
    /\ warmupRuns' = [warmupRuns EXCEPT ![r] =
          [@ EXCEPT !.pc = "done", !.outcome = IF ok THEN "complete" ELSE "error"]]
    /\ activeWarmupJobs' = [activeWarmupJobs EXCEPT ![warmupRuns[r].socketId] = null]
    /\ UNCHANGED <<cmpVars, toolVars, sockets, activeParsingJobs, runs, files, BATCH_SIZE,
                   warmupAnswers>>

NextWarmup ==
    \/ \E s \in SocketIds : Connect(s)
    \/ \E s \in SocketIds : Disconnect(s)
    \/ \E s \in SocketIds, r \in RunIds, n \in 1..MaxUrls : ApiWarmup(s, r, n)
    \/ \E s \in SocketIds : ApiWarmupStop(s)
    \/ \E r \in RunIds : WarmupBatchDone(r)
    \/ \E r \in RunIds : WarmupDelayElapsed(r)
    \/ \E r \in RunIds, ok \in BOOLEAN : WarmupReportsWritten(r, ok)

SpecWarmup == InitWarmup /\ [][NextWarmup]_vars

(***************************************************************************)
(* Claims about comparePages (checked under SpecCmp)                       *)
(***************************************************************************)
Compared == comparison # NoComparison

rec == comparison[1]

BothOk == prodResp.status = 200 /\ devResp.status = 200

\* the enabled fields whose prod and dev values, as stored in record r, differ
UnequalFields(r) ==
    { f \in {"title", "description", "h1", "ogImage"} :
        /\ checks[f]
        /\ CASE f = "title" -> r.prodTitle # r.devTitle
             [] f = "description" -> r.prodDescription # r.devDescription
             [] f = "h1" -> r.prodH1 # r.devH1
             [] f = "ogImage" -> r.prodOgImage # r.devOgImage }

\* the field-name notes
FieldNotes ==
    { <<"Title">>, <<"Description">>, <<"H1">>, <<"OG Image">>,
      <<"OG Image (CDN migration: Webflow->Sanity)">> }

NoteOf(f) ==
    CASE f = "title" -> <<"Title">>
      [] f = "description" -> <<"Description">>
      [] f = "h1" -> <<"H1">>
      [] f = "ogImage" -> <<"OG Image">>

\* C1: every record has status ERROR exactly when one of the two HTTP
\* statuses is not 200, DIFF exactly when both are 200 and diffCount > 0,
\* and OK otherwise.
C1_StatusInvariant ==
    Compared =>
        /\ rec.prodStatus = prodResp.status /\ rec.devStatus = devResp.status
        /\ rec.status \in {"OK", "DIFF", "ERROR"}
        /\ (rec.status = "ERROR") <=> ~BothOk
        /\ (rec.status = "DIFF") <=> (BothOk /\ rec.diffCount > 0)
        /\ (rec.status = "OK") <=> (BothOk /\ rec.diffCount = 0)

C1_Witness ==
    /\ Compared /\ BothOk /\ rec.status = "DIFF" /\ rec.diffCount = 2

\* C2 as stated: for EVERY record, diffCount is the number of enabled
\* fields with unequal values, migration-excepted og:image mismatch left out.
C2_Original ==
    Compared =>
        rec.diffCount =
            Cardinality(UnequalFields(rec) \ (IF rec.ogImageMigration THEN {"ogImage"} ELSE {}))

\* C2 (amended): for every record whose two statuses are 200, diffCount is
\* the number of enabled fields with unequal prod and dev values, not
\* counting an og:image mismatch classified as CDN migration; a disabled
\* field adds no note and is not counted.
C2_DiffCount ==
    (Compared /\ BothOk) =>
        /\ rec.diffCount =
            Cardinality(UnequalFields(rec) \ (IF rec.ogImageMigration THEN {"ogImage"} ELSE {}))
        /\ \A f \in {"title", "description", "h1", "ogImage"} :
            ~checks[f] => /\ f \notin UnequalFields(rec)
                          /\ ~includes(rec.notes, NoteOf(f))
        /\ ~checks.ogImage => ~rec.ogImageMigration

C2_Witness ==
    /\ Compared /\ BothOk /\ rec.diffCount = 3 /\ rec.ogImageMigration
    /\ Cardinality(UnequalFields(rec)) = 4

\* the host part of an og:image URL: what stands between the scheme and the path
PathTokens == {"/x/img.png", "/images/y/img.png", "/img.png", "/proxy/"}

UrlHost(u) ==
    IF u = <<>> THEN <<>>
    ELSE LET k == CHOOSE i \in 2..Len(u) :
                      u[i] \in PathTokens /\ \A j \in 2..(i - 1) : u[j] \notin PathTokens
         IN SubSeq(u, 2, k - 1)

OgMismatch == Compared /\ BothOk /\ checks.ogImage /\ rec.prodOgImage # rec.devOgImage

\* C3 as stated: the mismatch is flagged as migration exactly when the HOST
\* of the prod URL is a legacy CDN host and the HOST of the dev URL is the
\* new CDN host.
C3_Original ==
    OgMismatch =>
        (rec.ogImageMigration <=>
            /\ \E m \in WebflowMarkers : includes(UrlHost(rec.prodOgImage), m)
            /\ includes(UrlHost(rec.devOgImage), SanityMarker))

\* C3 (amended): with ogImage enabled, both sides 200 and unequal og:image
\* values, the mismatch is flagged ogImageMigration and left out of
\* diffCount exactly when the prod URL contains one of the four legacy CDN
\* names anywhere in the string and the dev URL contains cdn.sanity.io
\* anywhere in the string; otherwise it adds the plain 'OG Image' note and
\* increments diffCount.
C3_Migration ==
    OgMismatch =>
        LET others == Cardinality(UnequalFields(rec) \ {"ogImage"})
        IN /\ rec.ogImageMigration <=>
                /\ \E m \in WebflowMarkers : includes(rec.prodOgImage, m)
                /\ includes(rec.devOgImage, SanityMarker)
           /\ rec.ogImageMigration =>
                /\ rec.diffCount = others
                /\ includes(rec.notes, <<"OG Image (CDN migration: Webflow->Sanity)">>)
                /\ ~includes(rec.notes, <<"OG Image">>)
                /\ rec.ogImageMatch = WarningMark
           /\ ~rec.ogImageMigration =>
                /\ rec.diffCount = others + 1
                /\ includes(rec.notes, <<"OG Image">>)
                /\ ~includes(rec.notes, <<"OG Image (CDN migration: Webflow->Sanity)">>)
                /\ rec.ogImageMatch = CrossMark

C3_Witness ==
    /\ OgMismatch /\ rec.ogImageMigration
    /\ rec.prodOgImage = OgWebflowAssets /\ rec.devOgImage = OgProxySanity
    /\ rec.status = "OK"

\* the note comparePages writes for a side that did not answer 200
ErrorNote(side, resp) ==
    IF resp.hops # <<>>
    THEN <<side>> \o Num(resp.hops[1].statusCode) \o <<" redirect -> ">>
         \o resp.hops[1].pathname
    ELSE <<side>> \o Num(resp.status)

\* C4: when a side's status is not 200 the record is ERROR with
\* diffCount = 0 and its notes are exactly one entry per failing side, the
\* status or, for a redirected side, the redirect description; no
\* field-name note appears.
C4_ErrorRecord ==
    (Compared /\ ~BothOk) =>
        /\ rec.status = "ERROR"
        /\ rec.diffCount = 0
        /\ rec.notes =
            join((IF prodResp.status # 200
                  THEN <<ErrorNote("Prod: ", prodResp)>> ELSE <<>>)
                 \o (IF devResp.status # 200
                     THEN <<ErrorNote("Dev: ", devResp)>> ELSE <<>>), <<", ">>)
        /\ \A n \in FieldNotes : ~includes(rec.notes, n)

C4_Witness ==
    /\ Compared /\ prodResp.status = 200 /\ devResp.status = 404
    /\ devResp.hops # <<>> /\ prodResp.hops # <<>>
    /\ checks = AllChecks /\ prodResp.page # EmptyPage
    /\ rec.notes = <<"Dev: ", "301", " redirect -> ", "/new">>

(***************************************************************************)
(* Claims about runParser, /api/parse and /api/stop (checked under Spec)   *)
(***************************************************************************)
Emitted(run, type) == \E k \in 1..Len(run.events) : run.events[k].type = type

LastEvent(run) == run.events[Len(run.events)]

Reporting(run) == run.pc \in {"csvMain", "csvEnglish", "csvOther"}

Cancelled(run) == Emitted(run, "stopped")

InInputOrder(run) == \A i \in 1..Len(run.results) : run.results[i].url = run.urls[i]

\* C5: the result list of a run that is not cancelled has one record per
\* input path, record i being the comparison of path i, for either batch
\* size and whatever the order in which the tasks of a batch return.
C5_OrderPreserved ==
    \A r \in RunIds :
        LET run == runs[r]
        IN /\ Len(run.results) <= Len(run.urls)
           /\ InInputOrder(run)
           /\ \A i \in 1..Len(run.results) :
                 run.results[i] \in {batchTask(run.urls[i], a, checks) : a \in RunAnswers}
           /\ (Reporting(run) \/ (run.pc = "done" /\ ~Cancelled(run)))
                 => Len(run.results) = Len(run.urls)
           /\ (run.returned # null /\ ~Cancelled(run))
                 => run.returned[1].results = run.results

\* a completed run over the largest input in which a task returned before an
\* earlier task of its batch
C5_Witness ==
    \E r \in RunIds :
        /\ runs[r].pc = "done" /\ Emitted(runs[r], "complete")
        /\ runs[r].overtaken
        /\ Len(runs[r].results) = MaxUrls

\* C6: a stop request accepted between two batches (during the delay after
\* batch k-1) makes the run stop before batch k: it returns exactly the
\* records of batches 1..k-1, in input order, and its terminal event is
\* 'stopped'.
C6_Original ==
    \A r \in RunIds :
        LET run == runs[r]
        IN (run.stopAt # null /\ run.stopAt[1].pc = "delay") =>
              \/ run.pc = "delay"
              \/ /\ run.pc = "done"
                 /\ LastEvent(run).type = "stopped"
                 /\ ~Emitted(run, "complete")
                 /\ Len(run.results) = run.stopAt[1].batchStart + BATCH_SIZE
                 /\ InInputOrder(run)
                 /\ run.returned = Some([stopped |-> TRUE, results |-> run.results])

\* C7: once /api/stop has accepted a request for a run in progress, the run
\* never emits 'complete', ends with 'stopped', and, when the request came
\* before report generation, writes no report.
C7_Original ==
    \A r \in RunIds :
        LET run == runs[r]
        IN run.stopAt # null =>
              /\ ~Emitted(run, "complete")
              /\ (run.pc = "done" /\ run.thrown = null) => LastEvent(run).type = "stopped"
              /\ run.stopAt[1].pc \in {"fetching", "delay"}
                    => \A f \in FileNames : files[f] # r

\* C8: a 'complete' event is the last event of its run and carries the
\* summary: total = number of records = number of input paths, ok / diff /
\* error = the number of records of that status, summing up to total; a run
\* that ended without being cancelled and without an exception ended with it.
C8_CompleteSummary ==
    \A r \in RunIds :
        LET run == runs[r]
            Count(status) ==
                Cardinality({i \in 1..Len(run.results) : run.results[i].status = status})
        IN /\ \A k \in 1..Len(run.events) :
                 run.events[k].type = "complete" =>
                    LET summary == run.events[k].summary
                    IN /\ k = Len(run.events) /\ run.pc = "done"
                       /\ summary.total = Len(run.results)
                       /\ summary.total = Len(run.urls)
                       /\ summary.ok = Count("OK")
                       /\ summary.diff = Count("DIFF")
                       /\ summary.error = Count("ERROR")
                       /\ summary.ok + summary.diff + summary.error = summary.total
                       /\ run.returned = Some([results |-> run.results, summary |-> summary])
           /\ (run.pc = "done" /\ run.thrown = null /\ ~Cancelled(run))
                 => LastEvent(run).type = "complete"

\* a completed run with a record of each status
C8_Witness ==
    \E r \in RunIds :
        /\ runs[r].pc = "done"
        /\ LastEvent(runs[r]).type = "complete"
        /\ LastEvent(runs[r]).summary = [total |-> 3, ok |-> 1, diff |-> 1, error |-> 1]

\* C9: a run aborted by an exception ends with an 'error' event carrying the
\* exception's message, emits no 'complete', and none of the report files
\* has been written by it.
C9_Original ==
    \A r \in RunIds :
        LET run == runs[r]
        IN run.thrown # null =>
              /\ run.pc = "done"
              /\ LastEvent(run) = [type |-> "error", message |-> run.thrown[1]]
              /\ ~Emitted(run, "complete")
              /\ \A f \in FileNames : files[f] # r

\* C10: a failed fetch on either host is never thrown to runParser and never
\* halts the run: the path's record has status ERROR, an exception in a run
\* comes only after all paths were processed, a run is cut short only by a
\* stop request, and a run that ended otherwise processed all paths and
\* ended with 'complete'.
C10_FetchFailuresRecorded ==
    \A r \in RunIds :
        LET run == runs[r]
        IN /\ \A i \in 1..Len(run.results) :
                 LET c == run.results[i]
                 IN (c.prodStatus # 200 \/ c.devStatus # 200
                        \/ c.prodError # <<>> \/ c.devError # <<>>) => c.status = "ERROR"
           /\ run.thrown # null =>
                 /\ Len(run.results) = Len(run.urls)
                 /\ Emitted(run, "generating")
           /\ Cancelled(run) => run.stopAt # null
           /\ (run.pc = "done" /\ run.thrown = null /\ ~Cancelled(run)) =>
                 /\ Len(run.results) = Len(run.urls)
                 /\ LastEvent(run).type = "complete"

\* a completed run in which a prod fetch timed out, a dev fetch ended in 404,
\* and a later path was still compared
C10_Witness ==
    \E r \in RunIds :
        LET run == runs[r]
        IN /\ run.pc = "done" /\ Emitted(run, "complete")
           /\ Len(run.results) = 3
           /\ run.results[1].prodStatus = 0 /\ run.results[1].status = "ERROR"
           /\ run.results[2].devStatus = 404 /\ run.results[2].status = "ERROR"
           /\ run.results[3].status = "OK"

(***************************************************************************)
(* Claims about fetchPageData and the notes (checked under SpecCmp)        *)
(***************************************************************************)
\* the two fetches of the path: the host's answer and what fetchPageData returned
Sides == { [resp |-> prodResp, data |-> prodData], [resp |-> devResp, data |-> devData] }

FieldsEmpty(data) ==
    data.title = <<>> /\ data.description = <<>> /\ data.h1 = <<>> /\ data.ogImage = <<>>

\* C11 as stated: a fetch that ends with a terminal status other than 200
\* returns that status, the four fields empty and error = null.
C11_Original ==
    Compared =>
        \A side \in Sides :
            side.resp.status \notin {200, 0} =>
                /\ side.data.status = side.resp.status
                /\ FieldsEmpty(side.data)
                /\ side.data.error = null

\* C11 (amended): a terminal status outside 2xx is returned with the four
\* fields empty and error set to the message of the failed request; a 2xx
\* status other than 200 is returned with error = null and the fields
\* extracted from the body as for a 200.
C11_NonOkStatus ==
    Compared =>
        \A side \in Sides :
            /\ (~side.resp.ok /\ side.resp.status # 0) =>
                  /\ side.data.status = side.resp.status
                  /\ FieldsEmpty(side.data)
                  /\ side.data.error # null
                  /\ side.data.error = Some(side.resp.message)
            /\ (side.resp.ok /\ side.resp.status # 200) =>
                  /\ side.data.status = side.resp.status
                  /\ side.data.error = null
                  /\ side.data =
                        [fetchPageData(PagePath, [side.resp EXCEPT !.status = 200], checks)
                            EXCEPT !.status = side.resp.status]

\* prod answers 204 with a body that has a title, dev ends in 404
C11_Witness ==
    /\ Compared
    /\ prodResp.ok /\ prodResp.status = 204 /\ prodData.title = <<"Pricing">>
    /\ ~devResp.ok /\ devResp.status = 404
    /\ devData.error = Some(<<"Request failed with status code ", "404">>)

\* C12: a fetch that followed redirects has redirected = true, redirectStatus
\* = the status of the first hop and redirectUrl = the path reached after
\* the last hop, whether it ended in success or failure; without a redirect
\* redirected is false and both fields are null.
C12_Original ==
    Compared =>
        \A side \in Sides :
            LET hops == side.resp.hops
            IN IF hops = <<>>
               THEN /\ ~side.data.redirected
                    /\ side.data.redirectStatus = null
                    /\ side.data.redirectUrl = null
               ELSE /\ side.data.redirected
                    /\ side.data.redirectStatus = Some(hops[1].statusCode)
                    /\ side.data.redirectUrl = Some(hops[Len(hops)].pathname)

\* C20: notes is the sentinel 'All good' exactly when no note was produced:
\* both sides 200, no enabled field differs (a migration-excepted og:image
\* mismatch is a difference) and neither side redirected; otherwise notes
\* holds the produced notes and is not the sentinel.
C20_AllGoodSentinel ==
    Compared =>
        LET noNote == /\ BothOk
                      /\ UnequalFields(rec) = {}
                      /\ ~rec.prodRedirected /\ ~rec.devRedirected
        IN /\ (rec.notes = <<"All good">>) <=> noNote
           /\ rec.notes # <<>>
           /\ ~noNote =>
                 /\ ~includes(rec.notes, <<"All good">>)
                 /\ BothOk =>
                       /\ rec.prodRedirected => includes(rec.notes, <<"Prod redirected: ">>)
                       /\ rec.devRedirected => includes(rec.notes, <<"Dev redirected: ">>)
                       /\ \A f \in UnequalFields(rec) :
                             IF f = "ogImage" /\ rec.ogImageMigration
                             THEN includes(rec.notes,
                                           <<"OG Image (CDN migration: Webflow->Sanity)">>)
                             ELSE includes(rec.notes, NoteOf(f))
                 /\ ~BothOk =>
                       /\ rec.prodStatus # 200 => includes(rec.notes, <<"Prod: ">>)
                       /\ rec.devStatus # 200 => includes(rec.notes, <<"Dev: ">>)

\* 'All good' although the two pages differ in a field whose check is off
C20_Witness ==
    /\ Compared /\ rec.notes = <<"All good">>
    /\ ~checks.title /\ checks.h1 /\ checks.ogImage
    /\ trim(prodResp.page.title) # trim(devResp.page.title)

\* C17: a record has status OK only if, for every enabled field, the prod
\* value equals the dev value.
C17_Original ==
    (Compared /\ rec.status = "OK") => UnequalFields(rec) = {}

(***************************************************************************)
(* Claims about the requests of a run (checked under Spec)                 *)
(***************************************************************************)
\* C18: consecutive requests of a comparison are separated by the rate-limit
\* delay: a turn of the event loop, in which no time passes, issues at most
\* one request.
C18_Original ==
    [][\A r \in RunIds : Len(runs'[r].requests) <= Len(runs[r].requests) + 1]_vars

(***************************************************************************)
(* Claims about runs in progress together (checked under SpecTwo)          *)
(***************************************************************************)
\* the registry entry that run r reads its stop flag from
JobOf(jobs, r) == jobs[runs[r].socketId]

\* C13: two runs in progress together share neither the cancellation flag
\* nor the record accumulator: a step in which another run starts or ends
\* leaves a run's flag as it was and leaves it stoppable if it was, and a
\* run's result list holds records of its own paths only.
C13_Original ==
    [][\A r \in RunIds : \A q \in RunIds \ {r} :
          /\ (/\ InProgress(runs[r]) /\ runs'[r] = runs[r]
              /\ \/ runs[q].pc = "idle" /\ runs'[q].pc # "idle"
                 \/ InProgress(runs[q]) /\ runs'[q].pc = "done")
                => JobOf(activeParsingJobs', r) = JobOf(activeParsingJobs, r)
          /\ \A i \in 1..Len(runs'[r].results) :
                \E k \in 1..Len(runs'[r].urls) :
                    runs'[r].results[i].url = runs'[r].urls[k]]_vars

(***************************************************************************)
(* Claims about a failing progress observer (checked under SpecObserver)   *)
(***************************************************************************)
\* C14: an exception of socket.emit on a progress notification does not
\* abort the run: no run ends with the observer's exception, and a run that
\* ended without being cancelled processed all its paths.
C14_Original ==
    \A r \in RunIds :
        LET run == runs[r]
        IN /\ run.thrown # Some(ObserverError)
           /\ (run.pc = "done" /\ ~Cancelled(run)) => Len(run.results) = Len(run.urls)

(***************************************************************************)
(* Claims about the grouping of the HTML report (checked under SpecReport) *)
(***************************************************************************)
LocaleCodes == {LOCALES[k] : k \in 1..Len(LOCALES)}

\* the path starts with a segment that is one of the locale codes
Localized(u) ==
    /\ Len(u) >= 2 /\ u[1] = "/" /\ u[2] \in LocaleCodes
    /\ Len(u) > 2 => u[3] = "/"

Stripped(u) == IF Len(u) = 2 THEN <<"/">> ELSE <<"/">> \o Tail(Tail(Tail(u)))

\* the key in the stated priority order: mapping entry, else the path
\* without its locale, else the path itself
PriorityKey(u) ==
    IF u \in DOMAIN pagesMapping THEN pagesMapping[u]
    ELSE IF Localized(u) THEN Stripped(u)
    ELSE u

\* some result with path p is not localized
HasEnRecord(p) ==
    \E i \in 1..Len(reportResults) : reportResults[i].url = p /\ ~Localized(p)

\* the keys of the groups that hold a record of path u
GroupKeysOf(u) ==
    LET grouped == groupedResults[1]
    IN {grouped[k].basePath : k \in {j \in 1..Len(grouped) :
            \E m \in 1..Len(grouped[j].pageResults) : grouped[j].pageResults[m].url = u}}

GroupedCount ==
    LET grouped == groupedResults[1]
        sizes[k \in 0..Len(grouped)] ==
            IF k = 0 THEN 0 ELSE sizes[k - 1] + Len(grouped[k].pageResults)
    IN sizes[Len(grouped)]

\* C15 as stated: every record is in the group keyed by the mapping entry of
\* its path if there is one, else by its path without the locale segment,
\* else by its path; a mapped record is always under the mapped path.
C15_Original ==
    groupedResults # null =>
        \A i \in 1..Len(reportResults) :
            GroupKeysOf(reportResults[i].url) = {PriorityKey(reportResults[i].url)}

\* C15 amended: a record that is not localized is in the group keyed by the
\* mapping entry of its path if there is one, else by its path; a localized
\* record is in the group keyed by its mapping entry, else its path without
\* the locale, only when a non-localized record of the list has exactly that
\* path, and in the group keyed by its own path otherwise.  Every record is
\* in one group and the groups have distinct keys.
C15_GroupKey ==
    groupedResults # null =>
        LET grouped == groupedResults[1]
        IN /\ \A i \in 1..Len(reportResults) :
                 LET u == reportResults[i].url
                 IN GroupKeysOf(u) =
                       {IF Localized(u) /\ ~HasEnRecord(PriorityKey(u)) THEN u
                        ELSE PriorityKey(u)}
           /\ GroupedCount = Len(reportResults)
           /\ \A j, k \in 1..Len(grouped) :
                 grouped[j].basePath = grouped[k].basePath => j = k

\* a mapped localized record grouped with the EN record of its mapped path,
\* next to a localized record left under its own path for want of an EN one
C15_Witness ==
    /\ groupedResults # null
    /\ pagesMapping = SlugMapping
    /\ \E i, j, k \in 1..Len(reportResults) :
          /\ reportResults[i].url = <<"/", "fr", "/", "tarifs">>
          /\ reportResults[j].url = <<"/", "pricing">>
          /\ reportResults[k].url = <<"/", "fr">>
    /\ GroupKeysOf(<<"/", "fr", "/", "tarifs">>) = {<<"/", "pricing">>}
    /\ GroupKeysOf(<<"/", "fr">>) = {<<"/", "fr">>}

AlphabeticalLocales == <<"ar", "de", "es", "fr", "it", "ja", "ko", "nl", "pt", "zh">>

AlphabeticalIndex(c) == CHOOSE k \in 1..Len(AlphabeticalLocales) : AlphabeticalLocales[k] = c

RowCount(rows, item) == Cardinality({m \in 1..Len(rows) : rows[m] = item})

\* C16: in every rendered group the records of locale 'en' come before the
\* localized ones and the localized ones are in ascending alphabetical order
\* of their locale code; the rows are the records of the group.
C16_EnFirstThenAlphabetical ==
    sortedGroups # null =>
        \A g \in 1..Len(sortedGroups[1]) :
            LET rows == sortedGroups[1][g].rows
            IN /\ \A m, n \in 1..Len(rows) :
                     m < n =>
                        /\ rows[n].locale = "en" => rows[m].locale = "en"
                        /\ (rows[m].locale # "en" /\ rows[n].locale # "en") =>
                              AlphabeticalIndex(rows[m].locale) <= AlphabeticalIndex(rows[n].locale)
               /\ Len(rows) = sortedGroups[1][g].pageCount
               /\ \A i \in 1..Len(reportResults) :
                     LET item == [url |-> reportResults[i].url,
                                 locale |-> localeOf(reportResults[i].url)]
                     IN sortedGroups[1][g].basePath \in GroupKeysOf(item.url) =>
                           RowCount(rows, item)
                              = Cardinality({j \in 1..Len(reportResults) :
                                                reportResults[j].url = item.url})

\* a group of four given as fr, en, de, en: two 'en' records, for which the
\* comparator answers -1 in either order, and two locales out of order
C16_Witness ==
    /\ sortedGroups # null
    /\ pagesMapping = SlugMapping
    /\ reportResults = << [url |-> <<"/", "fr", "/", "tarifs">>],
                          [url |-> <<"/", "plans">>],
                          [url |-> <<"/", "de", "/", "pricing">>],
                          [url |-> <<"/", "pricing">>] >>
    /\ Len(sortedGroups[1]) = 1
    /\ [m \in 1..4 |-> sortedGroups[1][1].rows[m].locale] = <<"en", "en", "de", "fr">>

(***************************************************************************)
(* Claims about the sitemap import (checked under SpecSitemap)             *)
(***************************************************************************)
\* C19: the url list written by an import, by either sitemap-parser.js or by
\* /api/sitemap, holds no path more than once, whatever the sitemap holds.
C19_Original ==
    (imported # null /\ imported[1].urls # null) =>
        LET urls == imported[1].urls[1]
        IN \A i, j \in 1..Len(urls) : urls[i] = urls[j] => i = j

(***************************************************************************)
(* Claims about the batches of a run (checked under Spec)                  *)
(***************************************************************************)
\* the stop request of the run's session was accepted while a batch was in
\* flight
StoppedInFlight(run) == run.stopAt # null /\ run.stopAt[1].pc = "fetching"

\* C21: when the stop flag is set while batch k is in flight, every task of
\* batch k returns its record, the records of batch k are appended to the
\* results and no fetch of batch k+1 is ever dispatched.
C21_Original ==
    \A r \in RunIds :
        LET run == runs[r]
        IN StoppedInFlight(run) =>
              LET end == batchEnd(run, run.stopAt[1].batchStart)
              IN /\ Len(run.requests) <= 2 * end
                 /\ \/ run.pc = "fetching" /\ run.batchStart = run.stopAt[1].batchStart
                    \/ /\ Len(run.results) >= end
                       /\ \A i \in 1..end : run.results[i].url = run.urls[i]

\* the number of batches of the list of a run
BatchCount(run) == (Len(run.urls) + BATCH_SIZE - 1) \div BATCH_SIZE

\* the number of batches dispatched so far
Dispatched(run) == Cardinality({k \in 1..Len(run.events) : run.events[k].type = "fetching"})

\* C22: a run waits the inter-batch delay once after each batch that leaves
\* paths to process, and the wait is over before the next batch is
\* dispatched: while batch k is in flight k-1 delays were waited, a wait
\* begins only after a batch that is not the last, and a run that reaches
\* report generation over B >= 1 batches has waited exactly B-1 times.
C22_DelayBetweenBatches ==
    \A r \in RunIds :
        LET run == runs[r]
        IN /\ run.pc = "fetching" => run.delays = Dispatched(run) - 1
           /\ run.pc = "delay" =>
                 /\ run.delays = Dispatched(run)
                 /\ Dispatched(run) < BatchCount(run)
                 /\ Len(run.requests) = 2 * Len(run.results)
           /\ (Emitted(run, "generating") /\ BatchCount(run) >= 1) =>
                 /\ run.delays = BatchCount(run) - 1
                 /\ Dispatched(run) = BatchCount(run)
           /\ BatchCount(run) = 0 => run.delays = 0

\* a completed run over three paths in batches of two: two batches, the last
\* one short, and one delay
C22_Witness ==
    \E r \in RunIds :
        /\ Emitted(runs[r], "complete")
        /\ Len(runs[r].urls) = 3 /\ BATCH_SIZE = 2
        /\ runs[r].delays = 1

\* the positions in run.requests of the fetches that are in flight: those of
\* the tasks of the current batch that have not returned
InFlightFetches(run) ==
    IF run.pc # "fetching" THEN {}
    ELSE {k \in 1..Len(run.requests) :
             /\ k > 2 * run.batchStart
             /\ run.tasks[(k - 2 * run.batchStart + 1) \div 2] = PendingTask}

\* C23: the fetches in flight are those of one window of at most BATCH_SIZE
\* consecutive paths, one for prod and one for dev per path, so at most
\* 2 x BATCH_SIZE; while one of them is in flight no request for a path
\* after the window has been issued.
C23_BoundedConcurrency ==
    \A r \in RunIds :
        LET run == runs[r]
            window == {i \in 1..Len(run.urls) :
                          run.batchStart < i /\ i <= run.batchStart + BATCH_SIZE}
        IN /\ Cardinality(InFlightFetches(run)) <= 2 * BATCH_SIZE
           /\ \A k \in InFlightFetches(run) :
                 /\ \E i \in window : run.requests[k].path = run.urls[i]
                 /\ run.requests[k].host \in {"prod", "dev"}
                 /\ \A m \in InFlightFetches(run) : run.requests[m] = run.requests[k] => m = k
           /\ InFlightFetches(run) # {} =>
                 \A k \in 1..Len(run.requests) :
                    \E i \in 1..Len(run.urls) :
                       /\ run.requests[k].path = run.urls[i]
                       /\ i <= run.batchStart + BATCH_SIZE

\* a batch of two paths with its four fetches in flight, a third path waiting
C23_Witness ==
    \E r \in RunIds :
        /\ BATCH_SIZE = 2 /\ Len(runs[r].urls) = 3
        /\ Cardinality(InFlightFetches(runs[r])) = 4

\* the 'compared' notifications of a run, in the order of emission
ComparedSeq(run) == SelectSeq(run.events, LAMBDA ev : ev.type = "compared")

\* the k-th 'compared' notification is that of the k-th path
NotifiesInInputOrder(run) ==
    \A k \in 1..Len(ComparedSeq(run)) :
        /\ k <= Len(run.results)
        /\ ComparedSeq(run)[k] = [ type |-> "compared", current |-> k,
                                   total |-> Len(run.urls), url |-> run.urls[k],
                                   status |-> run.results[k].status ]

\* C24 as stated: every path gets one 'compared' notification with its
\* 1-based index, the total, the path and the status, in input order, and
\* the notification of a path is emitted once the comparison of that path is
\* done, without waiting for the other paths of its batch.
C24_Original ==
    \A r \in RunIds :
        LET run == runs[r]
        IN /\ NotifiesInInputOrder(run)
           /\ Emitted(run, "generating") => Len(ComparedSeq(run)) = Len(run.urls)
           /\ run.pc = "fetching" =>
                 \A i \in 1..Len(run.tasks) :
                    run.tasks[i] # PendingTask =>
                       \E k \in 1..Len(run.events) :
                          /\ run.events[k].type = "compared"
                          /\ run.events[k].current = run.batchStart + i

\* C24 amended: the notifications of a batch are emitted when all the
\* comparisons of the batch are done: at every moment the notified paths are
\* the paths whose batch is complete, one notification each, in input order,
\* with current = 1, 2, ..., the total, the path and the status of its
\* record; a run that reaches report generation has notified all N paths.
C24_ComparedAfterBatch ==
    \A r \in RunIds :
        LET run == runs[r]
        IN /\ NotifiesInInputOrder(run)
           /\ Len(ComparedSeq(run)) = Len(run.results)
           /\ run.pc = "fetching" => Len(ComparedSeq(run)) = run.batchStart
           /\ Emitted(run, "generating") => Len(ComparedSeq(run)) = Len(run.urls)

\* a completed run of three paths in batches of two in which the second task
\* of a batch returned before the first
C24_Witness ==
    \E r \in RunIds :
        /\ Emitted(runs[r], "complete")
        /\ BATCH_SIZE = 2 /\ Len(runs[r].urls) = 3
        /\ runs[r].overtaken
        /\ Len(ComparedSeq(runs[r])) = 3

TerminalTypes == {"complete", "stopped", "error"}

\* the positions of the terminal events of a run
TerminalEvents(run) == {k \in 1..Len(run.events) : run.events[k].type \in TerminalTypes}

\* the progress events of a run are those of one pass through
\* Idle -> Running -> {Completed | Stopped | Failed}
Lifecycle(run) ==
    /\ run.pc = "idle" <=> run.events = <<>>
    /\ run.events # <<>> => run.events[1].type = "start"
    /\ \A k \in 2..Len(run.events) : run.events[k].type # "start"
    /\ Cardinality(TerminalEvents(run)) <= 1
    /\ TerminalEvents(run) \subseteq {Len(run.events)}
    /\ run.pc = "done" <=> TerminalEvents(run) # {}
    /\ Emitted(run, "stopped") => ~Emitted(run, "generating")
    /\ Emitted(run, "complete") =>
          \E k \in 1..(Len(run.events) - 1) : run.events[k].type = "generating"

\* a run that has emitted its terminal event emits nothing more, issues no
\* request and writes no report file
QuietAfterTerminal(r) ==
    TerminalEvents(runs[r]) # {} =>
        /\ runs'[r].events = runs[r].events
        /\ runs'[r].requests = runs[r].requests
        /\ runs'[r].pc = "done"
        /\ \A f \in FileNames : files'[f] = r => files[f] = r

\* C25: every run emits 'start' first, then exactly one terminal event out of
\* 'complete', 'stopped' and 'error', which is its last event, and after it
\* no progress event, no fetch and no report write; 'generating' is emitted
\* in no run that stopped and before 'complete' in every run that completed.
C25_RunLifecycle ==
    /\ [](\A r \in RunIds : Lifecycle(runs[r]))
    /\ [][\A r \in RunIds : QuietAfterTerminal(r)]_vars

\* a run stopped after its first batch: 'start' first, 'stopped' last, the
\* records of the batch returned and no report generation
C25_Witness ==
    \E r \in RunIds :
        /\ runs[r].pc = "done"
        /\ LastEvent(runs[r]).type = "stopped"
        /\ runs[r].events[1].type = "start"
        /\ Len(runs[r].results) >= 1
        /\ \A f \in FileNames : files[f] = NoRun

(***************************************************************************)
(* Claims about the redirect notes (checked under SpecCmp)                 *)
(***************************************************************************)
RedirectInfos ==
    { [redirected |-> FALSE, redirectStatus |-> null, redirectUrl |-> null],
      [redirected |-> TRUE, redirectStatus |-> Some(301), redirectUrl |-> Some(<<"/new">>)],
      [redirected |-> TRUE, redirectStatus |-> Some(302), redirectUrl |-> Some(<<"/other">>)] }

\* the fetch result data with the redirect information info
WithRedirect(data, info) ==
    [data EXCEPT !.redirected = info.redirected,
                 !.redirectStatus = info.redirectStatus,
                 !.redirectUrl = info.redirectUrl]

\* the note expected for a side that was redirected, none for one that was not
ExpectedRedirectNote(label, data) ==
    IF data.redirected
    THEN << <<label>> \o Num(data.redirectStatus[1])
            \o <<" -> ">> \o data.redirectUrl[1] >>
    ELSE <<>>

\* C26: when both sides are 200, comparePages returns the same status and
\* the same diffCount whatever the redirect information of the two inputs,
\* and its notes are those of the inputs without redirect information
\* preceded by one note for each redirected side.
C26_RedirectIsInformational ==
    (Compared /\ BothOk) =>
        LET plain == CHOOSE info \in RedirectInfos : ~info.redirected
            plainNotes == comparePagesNotes(WithRedirect(prodData, plain),
                                            WithRedirect(devData, plain), checks)
            notes == ExpectedRedirectNote("Prod redirected: ", prodData)
                     \o ExpectedRedirectNote("Dev redirected: ", devData) \o plainNotes
        IN /\ \A p, d \in RedirectInfos :
                 LET other == comparePages(WithRedirect(prodData, p),
                                           WithRedirect(devData, d), checks)
                 IN /\ other.status = rec.status
                    /\ other.diffCount = rec.diffCount
           /\ rec.notes = IF notes = <<>> THEN <<"All good">> ELSE join(notes, <<", ">>)
           /\ \A k \in 1..Len(plainNotes) :
                 plainNotes[k] \in { <<"Title">>, <<"Description">>, <<"H1">>, <<"OG Image">>,
                                     <<"OG Image (CDN migration: Webflow->Sanity)">> }

\* prod reached its 200 through a redirect, dev did not, and a field differs
C26_Witness ==
    /\ Compared /\ BothOk
    /\ prodData.redirected /\ ~devData.redirected
    /\ rec.status = "DIFF" /\ rec.diffCount >= 1

(***************************************************************************)
(* Claims about the registry of jobs                                       *)
(***************************************************************************)
\* C27: while a run is in progress, activeParsingJobs holds an entry for the
\* session of the run, so that /api/stop for the session is accepted.
C27_Original ==
    \A r \in RunIds :
        InProgress(runs[r]) => activeParsingJobs[runs[r].socketId] # null

\* C28: a run that has terminated, in whatever way, leaves no entry behind:
\* activeParsingJobs has an entry only for a session with a run in progress.
C28_Original ==
    \A s \in SocketIds :
        activeParsingJobs[s] # null =>
            \E r \in RunIds : runs[r].socketId = s /\ InProgress(runs[r])

(***************************************************************************)
(* Claims about the cache warmup (checked under SpecWarmup)                *)
(***************************************************************************)
\* the warmup runs of session s that have not terminated
WarmupsInProgress(s) ==
    {r \in RunIds : warmupRuns[r].socketId = s /\ warmupRuns[r].pc \notin {"idle", "done"}}

\* this step answers a POST /api/warmup of session s made while a warmup run
\* of s was in progress
BusyWarmupRequest(s) ==
    /\ Len(warmupAnswers') = Len(warmupAnswers) + 1
    /\ warmupAnswers'[Len(warmupAnswers')].socketId = s
    /\ WarmupsInProgress(s) # {}

NoWarmupStarted == \A r \in RunIds : warmupRuns[r].pc = "idle" => warmupRuns'[r].pc = "idle"

\* C29 as stated: every /api/warmup request made for a session while a
\* warmup run of the session is in progress starts no run and is answered
\* 'Warmup already running'.
C29_Original ==
    [][\A s \in SocketIds :
          BusyWarmupRequest(s) =>
             /\ NoWarmupStarted
             /\ warmupAnswers'[Len(warmupAnswers')].error = Some(<<"Warmup already running">>)]_vars

\* C29 amended: at most one warmup run of a session is in progress at any
\* time; a request made for the session meanwhile starts no run, and is
\* answered 'Warmup already running' while the socket of the session is
\* connected and 'Socket connection not found' once it has disconnected.
C29_OneWarmupPerSession ==
    /\ [](\A s \in SocketIds : Cardinality(WarmupsInProgress(s)) <= 1)
    /\ [][\A s \in SocketIds :
             BusyWarmupRequest(s) =>
                /\ NoWarmupStarted
                /\ warmupAnswers'[Len(warmupAnswers')].error =
                      IF sockets[s] = "connected"
                      THEN Some(<<"Warmup already running">>)
                      ELSE Some(<<"Socket connection not found">>)]_vars

\* a session with a warmup run in progress whose last request was refused
\* as already running, after an accepted one
C29_Witness ==
    \E s \in SocketIds :
        /\ WarmupsInProgress(s) # {}
        /\ Len(warmupAnswers) >= 2
        /\ warmupAnswers[1] = [socketId |-> s, error |-> null]
        /\ warmupAnswers[Len(warmupAnswers)] =
              [socketId |-> s, error |-> Some(<<"Warmup already running">>)]

(***************************************************************************)
(* Claims about compareSitemaps (checked under SpecCompare)                *)
(***************************************************************************)
\* the slugs of a list of entries
SlugsOf(entries) == {entries[k].slug : k \in 1..Len(entries)}

\* the slugs of the list of slugs
SlugSet(slugs) == {slugs[k] : k \in 1..Len(slugs)}

\* C30: the counts of compareSitemaps partition the slugs: the matching and
\* the missing-in-Next.js slugs are the Webflow slugs, the matching and the
\* missing-in-Webflow slugs are the Next.js slugs, the perfect matches are
\* among the matching ones, and they are the matching slugs that are neither
\* in missingLanguages nor in missingXDefault.
C30_CountsPartitionSlugs ==
    (sitemapComparison # null /\ sitemapComparison.result # null) =>
        LET webflow == SlugsOf(sitemapComparison.webflowGrouped)
            nextjs == SlugsOf(sitemapComparison.nextjsGrouped)
            issues == sitemapComparison.result[1].issues
            stats == sitemapComparison.result[1].stats
            flagged == SlugsOf(issues.missingLanguages) \cup SlugSet(issues.missingXDefault)
        IN /\ stats.webflowSlugs = Cardinality(webflow)
           /\ stats.nextjsSlugs = Cardinality(nextjs)
           /\ stats.matchingSlugs = Cardinality(webflow \cap nextjs)
           /\ SlugsOf(issues.missingInNextjs) = webflow \ nextjs
           /\ SlugsOf(issues.missingInWebflow) = nextjs \ webflow
           /\ stats.matchingSlugs + Len(issues.missingInNextjs) = stats.webflowSlugs
           /\ stats.matchingSlugs + Len(issues.missingInWebflow) = stats.nextjsSlugs
           /\ stats.perfectMatch <= stats.matchingSlugs
           /\ flagged \subseteq (webflow \cap nextjs)
           /\ stats.perfectMatch = Cardinality((webflow \cap nextjs) \ flagged)
           /\ Len(issues.missingLanguages) = Cardinality(SlugsOf(issues.missingLanguages))
           /\ Len(issues.missingXDefault) = Cardinality(SlugSet(issues.missingXDefault))

\* two slugs on either side, one shared and flagged for a missing x-default,
\* one missing on each side
C30_Witness ==
    /\ sitemapComparison # null /\ sitemapComparison.result # null
    /\ LET issues == sitemapComparison.result[1].issues
           stats == sitemapComparison.result[1].stats
       IN /\ stats.webflowSlugs = 2 /\ stats.nextjsSlugs = 2
          /\ stats.matchingSlugs = 1 /\ stats.perfectMatch = 0
          /\ Len(issues.missingInNextjs) = 1 /\ Len(issues.missingInWebflow) = 1
          /\ Len(issues.missingXDefault) = 1 /\ issues.missingLanguages = <<>>

====
